---- MODULE Spec2Model ----
(***************************************************************************)
(* A model of databass (hc-nolan/databass): the Artist/Label upsert        *)
(* ArtistOrLabel.create_if_not_exist, run by concurrent requests against   *)
(* one table, and the goal progress tracker Goal.check_goals.              *)
(*                                                                         *)
(* Names are sequences of characters so that ILIKE (case folding and the   *)
(* LIKE wildcards) is computed, not assumed.  None is Python's None / SQL  *)
(* NULL for string columns; a nullable timestamp is <<>> or <<t>>.         *)
(***************************************************************************)
EXTENDS Integers, Sequences, FiniteSets, TLC

\* ------------------------------------------------------------------ bounds
MaxInitRows == 1
MaxReleases == 2
MaxChecks == 2
MaxGoals == 2

\* ------------------------------------------------------------ input domains
None == "None"
Classes == {"Artist", "Label"}
Procs == {"p1", "p2"}
MBIDs == {"X1", "X2"}
\* names a caller passes: the empty string, a plain name, a LIKE wildcard
ArgNames == {<<>>, <<"a">>, <<"_">>}
\* names stored rows and catalog entities carry
RowNames == {<<"A", "b">>, <<"_">>}
VALID_TYPES == {"release", "artist", "label"}

\* ------------------------------------------------------------- pure helpers
Lower(c) == IF c = "A" THEN "a" ELSE IF c = "B" THEN "b" ELSE c

LowerStr(s) == [i \in 1..Len(s) |-> Lower(s[i])]

\* SQL LIKE: % matches any run of characters, _ matches exactly one character.
RECURSIVE Like(_, _)
Like(p, s) ==
    IF p = <<>> THEN s = <<>>
    ELSE IF Head(p) = "%"
         THEN Like(Tail(p), s) \/ (s # <<>> /\ Like(p, Tail(s)))
         ELSE /\ s # <<>>
              /\ (Head(p) = "_" \/ Head(p) = Head(s))
              /\ Like(Tail(p), Tail(s))

\* column.ilike(f"%{name}%")
ILikeContains(rowname, name) ==
    Like(<<"%">> \o LowerStr(name) \o <<"%">>, LowerStr(rowname))

\* plain case-insensitive substring containment, for comparison with ILIKE
Contains(rowname, name) ==
    \E i \in 0..Len(rowname) :
        /\ i + Len(name) <= Len(rowname)
        /\ \A k \in 1..Len(name) : Lower(rowname[i + k]) = Lower(name[k])

Max(S) == CHOOSE x \in S : \A y \in S : y <= x
Min(S) == CHOOSE x \in S : \A y \in S : x <= y

\* the autoincrement primary key of the next inserted row
NextId(table) == IF table = {} THEN 1 ELSE Max({r.id : r \in table}) + 1

\* ------------------------------------------------------------------- state
VARIABLES
    cls,        \* the model class the modelled requests call (its table is db)
    db,         \* rows of that table: [id, mbid, name]
    call,       \* per request: position in create_if_not_exist, locals, outcome
    releases,   \* rows of the release table: [id, listen_date]
    goals,      \* rows of the goal table: [id, type, start, amount, completed]
    relSeq,     \* the release table's id sequence (ids are never reused)
    now,        \* the clock datetime.now() reads, one tick per check_goals
    lastCheck,  \* history: the goals the last check_goals evaluated, each
                \* with the release count it read for it and whether the
                \* check passed it to update()
    img,        \* one Util.get_image call: arguments, environment, outcome
    disk,       \* the image store: files written, directories present
    store,      \* artist, label, release and review rows with their keys
    op,         \* history: the last insert, update or delete on store
    query,      \* one dynamic_search call: tables, filters, outcome
    stat,       \* one statistics call: class, tables, arguments, outcome
    util,       \* one call of a pure helper: function, arguments, outcome
    rate,       \* the catalog client: remaining_requests, the clock, the last two calls
    alarm,      \* the process alarm: the clock, the pending SIGALRM, where it was raised
    create      \* one Release.create_new call: data, environment, outcome

vars ==
    <<cls, db, call, releases, goals, relSeq, now, lastCheck, img, disk,
      store, op, query,
      stat,
      util,
      rate,
      alarm,
      create>>
upsertVars == <<cls, db, call>>
goalVars == <<releases, goals, relSeq, now, lastCheck>>
imgVars == <<img, disk>>
storeVars == <<store, op>>
searchVars == <<query>>
statVars == <<stat>>
utilVars == <<util>>
rateVars == <<rate>>
alarmVars == <<alarm>>
createVars == <<create>>

\* ---------------------------------------------------------- storage layer
\* variant: the mbid column without its unique constraint
MbidUniqueViolationNever(table, row) == FALSE

\* MusicBrainzEntity.mbid: unique=True, nullable=True

MbidUniqueViolation(table, row) ==
    row.mbid # None /\ \E r \in table : r.mbid = row.mbid

\* operations.insert: session.add and commit; on an integrity error the
\* session is rolled back and the error is re-raised
OpsInsert(table, row) ==
    IF MbidUniqueViolation(table, row)
    THEN [table |-> table, id |-> 0, exc |-> "IntegrityError",
          rolledBack |-> TRUE]
    ELSE [table |-> table \cup {row}, id |-> row.id, exc |-> "",
          rolledBack |-> FALSE]

\* a table state the unique constraint and the primary key allow
TableOK(table) ==
    \A r1, r2 \in table :
        r1 # r2 => r1.id # r2.id /\ (r1.mbid # None => r1.mbid # r2.mbid)

\* variant: the "not mbid" guard inverted
ExistsByMbidInvertedGuard(table, mbid) ==
    IF mbid # None /\ mbid # ""
    THEN {}
    ELSE {r \in table : r.mbid = mbid}

\* MusicBrainzEntity.exists_by_mbid: the rows the query can return
ExistsByMbid(table, mbid) ==
    IF mbid = None \/ mbid = ""
    THEN {}
    ELSE {r \in table : r.mbid = mbid}

\* variant: equality instead of ilike
ExistsByNameExact(table, name) ==
    IF name = <<>> THEN {} ELSE {r \in table : r.name = name}

\* Base.exists_by_name: the rows one_or_none() / first() can return
ExistsByName(table, name) ==
    IF name = <<>>
    THEN {}
    ELSE {r \in table : ILikeContains(r.name, name)}

\* ------------------------------------------------------- external catalog
\* What the catalog service does during one lookup: the name search fails,
\* finds nothing or finds an entity; the by-id fetch fails or answers.
NetOutcomes ==
    [list : {"fail", "empty", "hit"},
     byid : {"fail", "ok"},
     name : RowNames,
     mbid : MBIDs]

SearchRaise == [kind |-> "raise", name |-> <<>>, mbid |-> None]
SearchNone == [kind |-> "none", name |-> <<>>, mbid |-> None]
SearchEntity(net) == [kind |-> "entity", name |-> net.name, mbid |-> net.mbid]

\* MusicBrainz.artist_search: the by-id fetch is wrapped in try/except
ArtistSearch(name, mbid, net) ==
    IF name = <<>> THEN SearchNone
    ELSE IF mbid # None
         THEN IF net.byid = "fail" THEN SearchNone ELSE SearchEntity(net)
    ELSE IF net.list = "fail" THEN SearchRaise
    ELSE IF net.list = "empty" THEN SearchNone
    ELSE IF net.byid = "fail" THEN SearchNone ELSE SearchEntity(net)

\* MusicBrainz.label_search: the by-id fetch is not guarded
LabelSearch(name, mbid, net) ==
    IF name = <<>> THEN SearchNone
    ELSE IF mbid # None
         THEN IF net.byid = "fail" THEN SearchRaise ELSE SearchEntity(net)
    ELSE IF net.list = "fail" THEN SearchRaise
    ELSE IF net.list = "empty" THEN SearchNone
    ELSE IF net.byid = "fail" THEN SearchRaise ELSE SearchEntity(net)

CatalogSearch(c, name, mbid, net) ==
    IF c = "Label" THEN LabelSearch(name, mbid, net)
    ELSE ArtistSearch(name, mbid, net)

\* item_search as create_if_not_exist holds it: the catalog's entity, or the
\* default {"name": name}, a dict with no "mbid" key
NoItem == [has_mbid |-> FALSE, name |-> <<>>, mbid |-> None]
NameOnlyItem(name) == [has_mbid |-> FALSE, name |-> name, mbid |-> None]
EntityItem(res) == [has_mbid |-> TRUE, name |-> res.name, mbid |-> res.mbid]

\* --------------------------------------------------------- image pipeline
\* Byte strings, URLs and file paths are sequences of tokens; an optional
\* URL is <<>> (None) or <<text>>.  An outcome is what a function returns or
\* raises; an effect adds the file system it leaves and the stages of the
\* pipeline it entered.
JPEG_HEADER == <<"ff", "d8", "ff">>
PNG_HEADER == <<"89", "P", "N", "G", "0d", "0a", "1a", "0a">>
SUPPORTED_EXTENSIONS == {".jpg", ".jpeg", ".png", ".webp"}
IMG_BASE_PATH == <<".", "/", "databass", "/", "static", "/", "img">>

JpegBytes == JPEG_HEADER \o <<"e0", "00", "10", "4a", "46">>
PngBytes == PNG_HEADER \o <<"00">>
GifBytes == <<"47", "49", "46", "38", "39", "61", "01", "00">>
ShortBytes == JPEG_HEADER
ByteStrings == {JpegBytes, PngBytes, GifBytes, ShortBytes}

Urls ==
    {<<"http://x/a", ".JPG">>, <<"http://x/a", ".png", "/b", ".webp">>,
     <<"http://x/a">>}

Digits == <<"1", "2", "3", "4", "5", "6", "7", "8", "9">>

\* str(entity_id)
IdStr(n) == Digits[n]

ImgRaise(e) == [kind |-> "raise", exc |-> e, path |-> <<>>]
ImgReturn(p) == [kind |-> "return", exc |-> "", path |-> p]

Eff(out, fs, stages) ==
    [kind |-> out.kind, exc |-> out.exc, path |-> out.path, fs |-> fs,
     stages |-> stages]

\* str.lower() on the tokens of a URL
LowerTok(t) ==
    IF t = ".JPG" THEN ".jpg" ELSE IF t = ".PNG" THEN ".png" ELSE t

\* Util.get_image_type_from_url: the extensions the loop over the set
\* SUPPORTED_EXTENSIONS can return (the set's iteration order is not fixed);
\* the empty set is the ValueError
GetImageTypeFromUrl(url) ==
    {e \in SUPPORTED_EXTENSIONS : \E i \in 1..Len(url) : LowerTok(url[i]) = e}

StartsWith(b, h) == Len(b) >= Len(h) /\ SubSeq(b, 1, Len(h)) = h

\* variant: the header alone decides
GetImageTypeFromBytesAnyLength(b) ==
    IF StartsWith(b, JPEG_HEADER) THEN ".jpg"
    ELSE IF StartsWith(b, PNG_HEADER) THEN ".png"
    ELSE ""

\* Util.get_image_type_from_bytes: the extension, or "" for its ValueError
GetImageTypeFromBytes(b) ==
    IF Len(b) < 8 THEN ""
    ELSE IF StartsWith(b, JPEG_HEADER) THEN ".jpg"
    ELSE IF StartsWith(b, PNG_HEADER) THEN ".png"
    ELSE ""

\* IMG_BASE_PATH + "/" + entity_type + "/" + str(entity_id) + ext
ImgFilePath(entity_type, entity_id, ext) ==
    IMG_BASE_PATH \o <<"/", entity_type, "/", IdStr(entity_id), ext>>

\* path.replace("databass/", "")
RECURSIVE ReplaceDatabass(_)
ReplaceDatabass(p) ==
    IF Len(p) < 2 THEN p
    ELSE IF p[1] = "databass" /\ p[2] = "/"
         THEN ReplaceDatabass(SubSeq(p, 3, Len(p)))
         ELSE <<p[1]>> \o ReplaceDatabass(Tail(p))

\* open(path, "wb") and write
WriteFile(fs, path, b) ==
    [fs EXCEPT !.files = {f \in @ : f.path # path}
                            \cup {[path |-> path, bytes |-> b]}]

\* variant: the extension is derived before the download
GetImageFromUrlExtensionFirst(url, entity_type, entity_id, env, fs) ==
    LET exts == GetImageTypeFromUrl(url) IN
    IF exts = {} THEN {Eff(ImgRaise("ValueError"), fs, {"url"})}
    ELSE IF env.dl = "error"
    THEN {Eff(ImgRaise("ConnectionError"), fs, {"url"})}
    ELSE IF env.dl = "status_4xx" THEN {Eff(ImgReturn(<<>>), fs, {"url"})}
    ELSE IF entity_type \notin fs.dirs
    THEN {Eff(ImgRaise("FileNotFoundError"), fs, {"url"})}
    ELSE {Eff(ImgReturn(ReplaceDatabass(
                  ImgFilePath(entity_type, entity_id, ext))),
              WriteFile(fs, ImgFilePath(entity_type, entity_id, ext),
                        env.content),
              {"url"}) : ext \in exts}

\* Util.get_image_from_url: requests.get is not guarded; a response with an
\* error status is falsy and the function ends without a return value; the
\* directory of the entity type is not created on this path
GetImageFromUrl(url, entity_type, entity_id, env, fs) ==
    IF env.dl = "error"
    THEN {Eff(ImgRaise("ConnectionError"), fs, {"url"})}
    ELSE IF env.dl = "status_4xx" THEN {Eff(ImgReturn(<<>>), fs, {"url"})}
    ELSE LET exts == GetImageTypeFromUrl(url) IN
         IF exts = {} THEN {Eff(ImgRaise("ValueError"), fs, {"url"})}
         ELSE IF entity_type \notin fs.dirs
         THEN {Eff(ImgRaise("FileNotFoundError"), fs, {"url"})}
         ELSE {Eff(ImgReturn(ReplaceDatabass(
                       ImgFilePath(entity_type, entity_id, ext))),
                   WriteFile(fs, ImgFilePath(entity_type, entity_id, ext),
                             env.content),
                   {"url"}) : ext \in exts}

\* what get_caa_image and get_discogs_image return: {"image", "type"}, the
\* empty dict, or an exception
SrcRaise(e) == [kind |-> "raise", exc |-> e, image |-> <<>>, type |-> ""]
SrcEmpty == [kind |-> "return", exc |-> "", image |-> <<>>, type |-> ""]
SrcImage(b, t) == [kind |-> "return", exc |-> "", image |-> b, type |-> t]

\* Util.get_caa_image with MusicBrainz.get_image: the alarm fires, the image
\* list request fails inside the ResponseError handler, no image is
\* returned, or bytes are returned and their type is read
GetCaaImage(mbid, env) ==
    IF mbid = "" THEN SrcRaise("ValueError")
    ELSE IF env.caa = "timeout" THEN SrcRaise("TimeoutException")
    ELSE IF env.caa = "error" THEN SrcRaise("ResponseError")
    ELSE IF env.caa = "none" THEN SrcRaise("ValueError")
    ELSE IF GetImageTypeFromBytes(env.content) = ""
    THEN SrcRaise("ValueError")
    ELSE SrcImage(env.content, GetImageTypeFromBytes(env.content))

\* Discogs.get_release_image_url / get_artist_image_url /
\* get_label_image_url: whether the names the entity type needs were given
DiscogsNamesGiven(entity_type, release_name, artist_name, label_name) ==
    IF entity_type = "release"
    THEN release_name \notin {None, ""} /\ artist_name \notin {None, ""}
    ELSE IF entity_type = "artist" THEN artist_name \notin {None, ""}
    ELSE label_name \notin {None, ""}

\* Util.get_discogs_image: a failed search or detail request is no URL
\* (get_item_id and the url getters catch RequestException), a response
\* without the rate-limit header is a TypeError of int(None), the download
\* of the image URL is not guarded and any response body is taken
GetDiscogsImage(entity_type, release_name, artist_name, label_name, env) ==
    IF entity_type \notin VALID_TYPES THEN SrcEmpty
    ELSE IF ~DiscogsNamesGiven(entity_type, release_name, artist_name,
                               label_name)
    THEN SrcEmpty
    ELSE IF env.search = "no_header" THEN SrcRaise("TypeError")
    ELSE IF env.search \in {"error", "no_match"} THEN SrcEmpty
    ELSE IF env.detail \in {"error", "no_images"} THEN SrcEmpty
    ELSE IF env.dl = "error" THEN SrcRaise("ConnectionError")
    ELSE IF GetImageTypeFromBytes(env.content) = ""
    THEN SrcRaise("ValueError")
    ELSE SrcImage(env.content, GetImageTypeFromBytes(env.content))

\* the Discogs branch of Util.get_image: Util.get_discogs_image() is called
\* with none of its four required arguments
DiscogsBranch(entity_type) == ImgRaise("TypeError")

\* Util.write_image
WriteImage(entity_id, entity_type, img_type, img_bytes, fs, stages) ==
    Eff(ImgReturn(ReplaceDatabass(
            ImgFilePath(entity_type, entity_id, img_type))),
        WriteFile(fs, ImgFilePath(entity_type, entity_id, img_type),
                  img_bytes),
        stages)

\* Path(...).mkdir(parents=True, exist_ok=True)
Mkdir(fs, entity_type) == [fs EXCEPT !.dirs = @ \cup {entity_type}]

\* Util.get_image: the set of effects a call can have.  In the handler of
\* the primary source's exception the function calls itself with mbid=None;
\* an exception of that call leaves the handler, its return value is dropped
\* and img is then read unbound.
RECURSIVE GetImage(_, _, _, _, _, _, _, _, _)
GetImage(entity_type, entity_id, mbid, release_name, artist_name, label_name, url, env, fs) ==
    IF entity_type \notin VALID_TYPES
    THEN {Eff(ImgRaise("ValueError"), fs, {})}
    ELSE IF url # <<>> /\ url[1] # <<>>
    THEN GetImageFromUrl(url[1], entity_type, entity_id, env, fs)
    ELSE IF mbid # None /\ entity_type = "release"
    THEN LET caa == GetCaaImage(mbid, env) IN
         IF caa.kind = "return"
         THEN {WriteImage(entity_id, entity_type, caa.type, caa.image,
                          Mkdir(fs, entity_type), {"caa"})}
         ELSE {IF r.kind = "raise"
               THEN [r EXCEPT !.stages = @ \cup {"caa"}]
               ELSE Eff(ImgRaise("UnboundLocalError"), r.fs,
                        r.stages \cup {"caa"}) :
               r \in GetImage(entity_type, entity_id, None, release_name,
                              artist_name, label_name, <<>>, env,
                              Mkdir(fs, entity_type))}
    ELSE {Eff(DiscogsBranch(entity_type), Mkdir(fs, entity_type),
              {"discogs"})}

ImgEnvs ==
    [dl : {"error", "status_4xx", "ok"},
     caa : {"timeout", "error", "none", "bytes"},
     search : {"error", "no_header", "no_match", "id"},
     detail : {"error", "no_images", "url"},
     content : ByteStrings]

\* --------------------------------------------------- create_if_not_exist
IdleCall ==
    [pc |-> "idle", name |-> <<>>, mbid |-> None, item |-> NoItem,
     ret |-> 0, exc |-> "", via |-> "", searched |-> FALSE,
     attempted |-> FALSE, inserted |-> 0, rolledBack |-> FALSE,
     imaged |-> FALSE]

Done(p, id, how) ==
    [call EXCEPT ![p].pc = "done", ![p].ret = id, ![p].via = how]

Raised(p, e) == [call EXCEPT ![p].pc = "done", ![p].exc = e]

\* a request enters create_if_not_exist(name, mbid)
Call(p) ==
    /\ call[p].pc = "idle"
    /\ \E n \in ArgNames, m \in MBIDs \cup {None} :
          call' = [call EXCEPT ![p].pc = "exists_by_mbid",
                               ![p].name = n, ![p].mbid = m]
    /\ UNCHANGED <<cls, db, goalVars, imgVars, storeVars, searchVars, statVars,
                 utilVars, rateVars, alarmVars, createVars>>

\* item_exists = cls.exists_by_mbid(mbid); if item_exists: return its id
CheckMbid(p) ==
    /\ call[p].pc = "exists_by_mbid"
    /\ LET hit == ExistsByMbid(db, call[p].mbid) IN
          IF hit # {}
          THEN \E r \in hit : call' = Done(p, r.id, "mbid")
          ELSE call' = [call EXCEPT ![p].pc = "exists_by_name"]
    /\ UNCHANGED <<cls, db, goalVars, imgVars, storeVars, searchVars, statVars,
                 utilVars, rateVars, alarmVars, createVars>>

\* item_exists = cls.exists_by_name(name); if item_exists: return its id
CheckName(p) ==
    /\ call[p].pc = "exists_by_name"
    /\ LET hit == ExistsByName(db, call[p].name) IN
          IF hit # {}
          THEN \E r \in hit : call' = Done(p, r.id, "name")
          ELSE call' = [call EXCEPT ![p].pc = "search"]
    /\ UNCHANGED <<cls, db, goalVars, imgVars, storeVars, searchVars, statVars,
                 utilVars, rateVars, alarmVars, createVars>>

\* variant: no re-check by the catalog's mbid before the insert
SearchStepNoRecheck(p, res) ==
    IF res.kind = "raise"
    THEN call' = [Raised(p, "WebServiceError") EXCEPT ![p].searched = TRUE]
    ELSE IF res.kind = "none"
    THEN call' = [Raised(p, "KeyError") EXCEPT
                     ![p].searched = TRUE,
                     ![p].item = NameOnlyItem(call[p].name)]
    ELSE call' = [call EXCEPT ![p].pc = "insert", ![p].searched = TRUE,
                              ![p].item = EntityItem(res)]

\* the catalog lookup, construct_item, and the re-check by the catalog's mbid
SearchStep(p, res) ==
    IF res.kind = "raise"
    THEN call' = [Raised(p, "WebServiceError") EXCEPT ![p].searched = TRUE]
    ELSE IF res.kind = "none"
    THEN \* item_search = {"name": name}; item_search["mbid"] has no such key
         call' = [Raised(p, "KeyError") EXCEPT
                     ![p].searched = TRUE,
                     ![p].item = NameOnlyItem(call[p].name)]
    ELSE LET hit == ExistsByMbid(db, res.mbid) IN
         IF hit # {}
         THEN \E r \in hit :
                 call' = [Done(p, r.id, "search_mbid") EXCEPT
                             ![p].searched = TRUE,
                             ![p].item = EntityItem(res)]
         ELSE call' = [call EXCEPT ![p].pc = "insert", ![p].searched = TRUE,
                                   ![p].item = EntityItem(res)]

Search(p) ==
    /\ call[p].pc = "search"
    /\ \E net \in NetOutcomes :
          SearchStep(p, CatalogSearch(cls, call[p].name, call[p].mbid, net))
    /\ UNCHANGED <<cls, db, goalVars, imgVars, storeVars, searchVars, statVars,
                 utilVars, rateVars, alarmVars, createVars>>

\* item_id = insert(new_item); an error of insert leaves the call
Insert(p) ==
    /\ call[p].pc = "insert"
    /\ LET row == [id |-> NextId(db), mbid |-> call[p].item.mbid,
                   name |-> call[p].item.name]
           res == OpsInsert(db, row) IN
          /\ db' = res.table
          /\ IF res.exc # ""
             THEN call' = [Raised(p, res.exc) EXCEPT
                              ![p].attempted = TRUE,
                              ![p].rolledBack = res.rolledBack]
             ELSE call' = [call EXCEPT ![p].pc = "get_image",
                                       ![p].attempted = TRUE,
                                       ![p].inserted = res.id]
    /\ UNCHANGED <<cls, goalVars, imgVars, storeVars, searchVars, statVars,
                 utilVars, rateVars, alarmVars, createVars>>

\* Util.get_image(entity_type=..., entity_id=item_id, mbid=None, url=None,
\* release_name=None, artist_name=..., label_name=...), then return item_id
FetchImage(p) ==
    /\ call[p].pc = "get_image"
    /\ LET etype == IF cls = "Label" THEN "label" ELSE "artist"
           an == IF cls = "Label" THEN None ELSE call[p].name
           ln == IF cls = "Label" THEN call[p].name ELSE None
           effects == UNION {GetImage(etype, call[p].inserted, None, None,
                                      an, ln, <<>>, env, disk) :
                             env \in ImgEnvs} IN
          \E e \in effects :
              /\ disk' = e.fs
              /\ IF e.kind = "raise"
                 THEN call' = [Raised(p, e.exc) EXCEPT ![p].imaged = TRUE]
                 ELSE call' = [Done(p, call[p].inserted, "insert") EXCEPT
                                  ![p].imaged = TRUE]
    /\ UNCHANGED <<cls, db, goalVars, img, storeVars, searchVars, statVars,
                 utilVars, rateVars, alarmVars, createVars>>

\* ------------------------------------------------------------------ goals
\* Goal.type is a free string ("release, album, label"); update_goal only
\* tells "release" from anything else, so one other type stands for the rest
GoalTypes == {"release", "album"}
Dates == 1..2
Amounts == 1..2

\* Goal.new_releases_since_start_date
NewReleasesSinceStartDate(g, rels) ==
    Cardinality({r \in rels : r.listen_date >= g.start})

\* variant: no test of the goal's type
UpdateGoalAnyType(g, rels, t) ==
    IF NewReleasesSinceStartDate(g, rels) >= g.amount
    THEN [g EXCEPT !.completed = <<t>>]
    ELSE g

\* variant: > instead of >=
UpdateGoalStrictlyMore(g, rels, t) ==
    IF g.type = "release" /\ NewReleasesSinceStartDate(g, rels) > g.amount
    THEN [g EXCEPT !.completed = <<t>>]
    ELSE g

\* Goal.update_goal, with t the value datetime.now() returns
UpdateGoal(g, rels, t) ==
    IF g.type = "release"
    THEN IF NewReleasesSinceStartDate(g, rels) >= g.amount
         THEN [g EXCEPT !.completed = <<t>>]
         ELSE g
    ELSE g

\* variant: no filter on completed
GetIncompleteAll(table) == table

\* Goal.get_incomplete
GetIncomplete(table) == {g \in table : g.completed = <<>>}

\* operations.update: the stored row with the item's id takes its attributes
UpdateRows(table, items) ==
    {IF \E w \in items : w.id = g.id
     THEN CHOOSE w \in items : w.id = g.id
     ELSE g : g \in table}

\* the /add_goal route: construct_item("goal", form) and insert
AddGoal ==
    /\ Cardinality(goals) < MaxGoals
    /\ \E ty \in GoalTypes, st \in Dates, am \in Amounts :
          goals' = goals \cup {[id |-> NextId(goals), type |-> ty, start |-> st,
                                amount |-> am, completed |-> <<>>]}
    /\ UNCHANGED <<upsertVars, imgVars, storeVars, searchVars, releases, relSeq, now, lastCheck,
                 statVars, utilVars, rateVars, alarmVars,
                 createVars>>

\* a release row is inserted with its listen_date
InsertRelease ==
    /\ relSeq < MaxReleases
    /\ \E d \in Dates :
          releases' = releases \cup {[id |-> relSeq + 1, listen_date |-> d]}
    /\ relSeq' = relSeq + 1
    /\ UNCHANGED <<upsertVars, imgVars, storeVars, searchVars, goals, now, lastCheck,
                 statVars, utilVars, rateVars, alarmVars,
                 createVars>>

\* the /delete route: delete("release", id)
DeleteRelease ==
    /\ \E r \in releases : releases' = releases \ {r}
    /\ UNCHANGED <<upsertVars, imgVars, storeVars, searchVars, goals, relSeq, now, lastCheck,
                 statVars, utilVars, rateVars, alarmVars,
                 createVars>>

\* variant: update(goal) is called for every goal the check evaluated
CheckGoalsUpdateEvery ==
    /\ now < MaxChecks
    /\ now' = now + 1
    /\ LET active == GetIncomplete(goals)
           evaluated == {UpdateGoal(g, releases, now') : g \in active} IN
          /\ goals' = UpdateRows(goals, evaluated)
          /\ lastCheck' =
                {<<g.id, NewReleasesSinceStartDate(g, releases),
                   \E w \in evaluated : w.id = g.id>> : g \in active}
    /\ UNCHANGED <<upsertVars, imgVars, storeVars, searchVars, releases, relSeq,
                 statVars, utilVars, rateVars, alarmVars,
                 createVars>>

\* Goal.check_goals
CheckGoals ==
    /\ now < MaxChecks
    /\ now' = now + 1
    /\ LET active == GetIncomplete(goals)
           evaluated == {UpdateGoal(g, releases, now') : g \in active}
           completedNow == {g \in evaluated : g.completed # <<>>} IN
          /\ goals' = UpdateRows(goals, completedNow)
          /\ lastCheck' =
                {<<g.id, NewReleasesSinceStartDate(g, releases),
                   \E w \in completedNow : w.id = g.id>> : g \in active}
    /\ UNCHANGED <<upsertVars, imgVars, storeVars, searchVars, releases, relSeq,
                 statVars, utilVars, rateVars, alarmVars,
                 createVars>>

\* ------------------------------------------------------------ stored rows
\* The four related tables with the columns that relate them: an artist row
\* is [id, mbid], a label row [id], a release row [id, artist_id, label_id],
\* a review row [id, release_id].
ModelNames == {"artist", "label", "release", "review"}
StoreIds == 1..2
EmptyStore == [artist |-> {}, label |-> {}, release |-> {}, review |-> {}]

Ids(table) == {r.id : r \in table}

\* Release.artist_id, Release.label_id and Review.release_id are ForeignKey
\* columns: the store refuses a row whose key names no row
ForeignKeyViolation(st, type, row) ==
    \/ /\ type = "release"
       /\ \/ row.artist_id \notin Ids(st.artist)
          \/ row.label_id \notin Ids(st.label)
    \/ /\ type = "review"
       /\ row.release_id \notin Ids(st.release)

\* every foreign key of every stored row names a stored row
RefOK(st) ==
    /\ \A r \in st.release : ~ForeignKeyViolation(st, "release", r)
    /\ \A v \in st.review : ~ForeignKeyViolation(st, "review", v)

\* variant: no relationship cascades
CascadeDeleteRowOnly(st, type, id) ==
    [st EXCEPT ![type] = {r \in @ : r.id # id}]

\* session.delete(row) under the relationships' cascade="all, delete-orphan":
\* Artist.releases, Label.releases and Release.reviews
CascadeDelete(st, type, id) ==
    LET rels == IF type = "artist"
                THEN {r \in st.release : r.artist_id = id}
                ELSE IF type = "label"
                THEN {r \in st.release : r.label_id = id}
                ELSE IF type = "release"
                THEN {r \in st.release : r.id = id}
                ELSE {}
        revs == {v \in st.review : v.release_id \in Ids(rels)}
        cascaded == [st EXCEPT !.release = @ \ rels, !.review = @ \ revs] IN
    [cascaded EXCEPT ![type] = {r \in @ : r.id # id}]

\* the outcome of an operation: the rows the store holds after it
OpFail(st, e) ==
    [store |-> st, exc |-> e, rolledBack |-> TRUE, committed |-> FALSE]
OpOk(st) ==
    [store |-> st, exc |-> "", rolledBack |-> FALSE, committed |-> TRUE]

\* operations.insert on the related tables: add and commit; a constraint
\* the commit violates is an IntegrityError, any other failure an Exception,
\* and both roll the session back
OpsInsertInto(st, type, row, dberr) ==
    IF dberr THEN OpFail(st, "Exception")
    ELSE IF type = "artist" /\ OpsInsert(st.artist, row).exc # ""
    THEN OpFail(st, OpsInsert(st.artist, row).exc)
    ELSE IF ForeignKeyViolation(st, type, row)
    THEN OpFail(st, "IntegrityError")
    ELSE OpOk([st EXCEPT ![type] = @ \cup {row}])

\* variant: a failed commit leaves the changed attributes in place
OpsUpdateNoRollback(st, type, item, dberr) ==
    IF \A r \in st[type] : r.id # item.id
    THEN OpFail(st, "Exception")
    ELSE LET pending == [st EXCEPT ![type] = UpdateRows(@, {item})] IN
         IF \/ dberr
            \/ type = "artist" /\ ~TableOK(pending.artist)
            \/ ForeignKeyViolation(st, type, item)
         THEN [OpFail(pending, "Exception") EXCEPT !.rolledBack = FALSE]
         ELSE OpOk(pending)

\* operations.update: the stored row with the item's id takes the item's
\* attributes and the session commits; no such row, or any failure, is an
\* Exception after a rollback
OpsUpdate(st, type, item, dberr) ==
    IF \A r \in st[type] : r.id # item.id
    THEN OpFail(st, "Exception")
    ELSE LET pending == [st EXCEPT ![type] = UpdateRows(@, {item})] IN
         IF \/ dberr
            \/ type = "artist" /\ ~TableOK(pending.artist)
            \/ ForeignKeyViolation(st, type, item)
         THEN OpFail(st, "Exception")
         ELSE OpOk(pending)

\* operations.delete: get_model(item_type), query().where().one(),
\* session.delete and commit; an unknown model name, no such row, or any
\* failure raises after a rollback
OpsDelete(st, item_type, item_id, dberr) ==
    IF item_type \notin ModelNames THEN OpFail(st, "NameError")
    ELSE IF item_id \notin Ids(st[item_type])
    THEN OpFail(st, "NoResultFound")
    ELSE IF dberr THEN OpFail(st, "Exception")
    ELSE OpOk(CascadeDelete(st, item_type, item_id))

\* the rows a caller can pass to insert or update
NewRows(st, type, id) ==
    IF type = "artist" THEN [id : {id}, mbid : {None, "X1"}]
    ELSE IF type = "label" THEN [id : {id}]
    ELSE IF type = "release"
    THEN [id : {id}, artist_id : StoreIds, label_id : StoreIds]
    ELSE [id : {id}, release_id : StoreIds]

Size(st) ==
    Cardinality(st.artist) + Cardinality(st.label)
        + Cardinality(st.release) + Cardinality(st.review)

OpRecord(name, type, id, dberr, st, res) ==
    [name |-> name, type |-> type, id |-> id, dberr |-> dberr,
     found |-> type \in ModelNames /\ id \in Ids(st[type]),
     failed |-> res.exc # "", exc |-> res.exc,
     rolledBack |-> res.rolledBack, committed |-> res.committed,
     removed |-> Size(st) - Size(res.store)]

NoOp ==
    [name |-> "", type |-> "", id |-> 0, dberr |-> FALSE, found |-> FALSE,
     failed |-> FALSE, exc |-> "", rolledBack |-> FALSE,
     committed |-> FALSE, removed |-> 0]

\* insert(item) with a new row of one of the four tables
StoreInsert ==
    /\ \E type \in ModelNames, dberr \in BOOLEAN :
          /\ NextId(store[type]) \in StoreIds
          /\ \E row \in NewRows(store, type, NextId(store[type])) :
                LET res == OpsInsertInto(store, type, row, dberr) IN
                /\ store' = res.store
                /\ op' = OpRecord("insert", type, row.id, dberr, store, res)
    /\ UNCHANGED <<upsertVars, goalVars, imgVars, searchVars, statVars, utilVars,
                 rateVars, alarmVars, createVars>>

\* update(item) with an artist or release object carrying an id
StoreUpdate ==
    /\ \E type \in {"artist", "release"}, id \in StoreIds,
          dberr \in BOOLEAN :
          \E item \in NewRows(store, type, id) :
              LET res == OpsUpdate(store, type, item, dberr) IN
              /\ store' = res.store
              /\ op' = OpRecord("update", type, id, dberr, store, res)
    /\ UNCHANGED <<upsertVars, goalVars, imgVars, searchVars, statVars, utilVars,
                 rateVars, alarmVars, createVars>>

\* delete(item_type, item_id)
StoreDelete ==
    /\ \E type \in ModelNames \cup {"tag"}, id \in StoreIds,
          dberr \in BOOLEAN :
          LET res == OpsDelete(store, type, id, dberr) IN
          /\ store' = res.store
          /\ op' = OpRecord("delete", type, id, dberr, store, res)
    /\ UNCHANGED <<upsertVars, goalVars, imgVars, searchVars, statVars, utilVars,
                 rateVars, alarmVars, createVars>>

\* --------------------------------------------------------- dynamic search
\* A filters mapping holds, per key, <<>> (the key is absent) or <<value>>.
\* Text values are sequences of characters, numeric values the strings a
\* form sends ("" when the field was left empty).
Has(f, k) == f[k] # <<>>
Val(f, k) == f[k][1]

\* int(value), as the comparison with an integer column reads it
ToInt(v) == CHOOSE n \in 1..Len(Digits) : Digits[n] = v

\* the companion key that holds a range field's comparison operator
CompKey(k) ==
    IF k = "rating" THEN "rating_comparison"
    ELSE IF k = "year" THEN "year_comparison"
    ELSE IF k = "begin_date" THEN "begin_comparison"
    ELSE "end_comparison"

OPERATORS == {"<", "=", ">"}

\* util.apply_comparison_filter: the rows whose column compares to the value
\* as the operator says; any other operator is a ValueError
ApplyComparisonFilter(rows, column, operator, value) ==
    IF operator = "<" THEN {r \in rows : r[column] < ToInt(value)}
    ELSE IF operator = ">" THEN {r \in rows : r[column] > ToInt(value)}
    ELSE {r \in rows : r[column] = ToInt(value)}

\* variant: no name matching means no filter
IdByMatchingNameOrAll(table, name) ==
    IF {r \in table : ILikeContains(r.name, name)} = {}
    THEN Ids(table)
    ELSE Ids({r \in table : ILikeContains(r.name, name)})

\* MusicBrainzEntity.id_by_matching_name
IdByMatchingName(table, name) ==
    Ids({r \in table : ILikeContains(r.name, name)})

\* the orders in which a query can deliver a set of rows
Orderings(rows) ==
    {s \in [1..Cardinality(rows) -> rows] :
        \A i, j \in 1..Cardinality(rows) : i # j => s[i] # s[j]}

\* query.order_by(cls.id).all()
SortById(rows) ==
    CHOOSE s \in Orderings(rows) :
        \A i, j \in 1..Cardinality(rows) : i < j => s[i].id < s[j].id

QueryRaise(e) == [kind |-> "raise", exc |-> e, rows |-> <<>>]
QueryRows(s) == [kind |-> "return", exc |-> "", rows |-> s]

ReleaseSearchKeys == {"name", "artist", "label", "rating", "year"}

\* Release.dynamic_search, one key of the loop: the error its branch raises
ReleaseKeyExc(f, k) ==
    IF k \notin {"rating", "year"} \/ Val(f, k) = "" THEN ""
    ELSE IF ~Has(f, CompKey(k)) THEN "KeyError"
    ELSE IF Val(f, CompKey(k)) \notin OPERATORS THEN "ValueError"
    ELSE ""

\* Release.dynamic_search, one key of the loop: the releases its filter keeps
ReleaseKeyRows(st, f, k) ==
    IF k \in {"rating", "year"}
    THEN IF Val(f, k) = "" THEN st.release
         ELSE ApplyComparisonFilter(st.release, k, Val(f, CompKey(k)),
                                    Val(f, k))
    ELSE IF Val(f, k) = <<>> THEN st.release
    ELSE IF k = "name"
    THEN {r \in st.release : ILikeContains(r.name, Val(f, k))}
    ELSE IF k = "artist"
    THEN {r \in st.release :
             r.artist_id \in IdByMatchingName(st.artist, Val(f, k))}
    ELSE {r \in st.release :
             r.label_id \in IdByMatchingName(st.label, Val(f, k))}

\* Release.dynamic_search: the loop over the keys of the mapping raises the
\* error of the first key whose branch fails (the mapping's order is the
\* caller's), else the rows every filter keeps come back ordered by id
ReleaseDynamicSearch(st, f) ==
    LET present == {k \in ReleaseSearchKeys : Has(f, k)}
        excs == {ReleaseKeyExc(f, k) : k \in present} \ {""} IN
    IF excs # {} THEN {QueryRaise(e) : e \in excs}
    ELSE {QueryRows(SortById(
              {r \in st.release :
                  \A k \in present : r \in ReleaseKeyRows(st, f, k)}))}

ArtistOrLabelSearchKeys == {"name", "begin_date", "end_date"}

\* names that do not refer to a real-world entity
PlaceholderNames == {<<"[NONE]">>, <<"[no label]">>, <<"Various Artists">>}

\* variant: a missing operator is taken to be "="
ArtistOrLabelKeyExcDefaultEquals(f, k) ==
    IF k \notin {"begin_date", "end_date"} \/ Val(f, k) = "" THEN ""
    ELSE IF ~Has(f, CompKey(k)) THEN ""
    ELSE IF Val(f, CompKey(k)) \notin OPERATORS THEN "ValueError"
    ELSE ""

\* ArtistOrLabel.dynamic_search, one key of the loop: the error its branch
\* raises before the filter is applied
ArtistOrLabelKeyExc(f, k) ==
    IF k \notin {"begin_date", "end_date"} \/ Val(f, k) = "" THEN ""
    ELSE IF ~Has(f, CompKey(k)) THEN "KeyError"
    ELSE IF Val(f, CompKey(k)) \notin OPERATORS THEN "ValueError"
    ELSE ""

\* ArtistOrLabel.dynamic_search, one key of the loop: the rows its filter
\* keeps; the date keys are compared on the begin and end columns
ArtistOrLabelKeyRows(table, f, k) ==
    IF k \in {"begin_date", "end_date"}
    THEN IF Val(f, k) = "" \/ ~Has(f, CompKey(k)) THEN table
         ELSE ApplyComparisonFilter(table,
                  IF k = "begin_date" THEN "begin" ELSE "end",
                  Val(f, CompKey(k)), Val(f, k))
    ELSE IF Val(f, k) = <<>> THEN table
    ELSE {r \in table : ILikeContains(r.name, Val(f, k))}

\* variant: the placeholder names are not left out
ArtistOrLabelDynamicSearchAll(table, f) ==
    LET present == {k \in ArtistOrLabelSearchKeys : Has(f, k)}
        excs == {ArtistOrLabelKeyExc(f, k) : k \in present} \ {""}
        dated == \E k \in present \cap {"begin_date", "end_date"} :
                    Val(f, k) # ""
        rows == {r \in table :
                    \A k \in present : r \in ArtistOrLabelKeyRows(table, f, k)} IN
    IF excs # {} THEN {QueryRaise(e) : e \in excs}
    ELSE {QueryRows(s) : s \in Orderings(rows)}
            \cup (IF dated THEN {QueryRaise("AttributeError")} ELSE {})

\* ArtistOrLabel.dynamic_search: as above, but the model has no column
\* named begin_date or end_date, so a date filter with a valid operator
\* either fails on the attribute or is applied to begin / end, as
\* apply_comparison_filter resolves it; the placeholder names are left out
\* and .all() has no order_by, so the rows come in any order
ArtistOrLabelDynamicSearch(table, f) ==
    LET present == {k \in ArtistOrLabelSearchKeys : Has(f, k)}
        excs == {ArtistOrLabelKeyExc(f, k) : k \in present} \ {""}
        dated == \E k \in present \cap {"begin_date", "end_date"} :
                    Val(f, k) # ""
        rows == {r \in table :
                    /\ \A k \in present : r \in ArtistOrLabelKeyRows(table, f, k)
                    /\ r.name \notin PlaceholderNames} IN
    IF excs # {} THEN {QueryRaise(e) : e \in excs}
    ELSE {QueryRows(s) : s \in Orderings(rows)}
            \cup (IF dated THEN {QueryRaise("AttributeError")} ELSE {})

\* ------------------------------------------------- dates and catalog images
\* Date strings are sequences of characters; an optional argument is <<>>
\* (None) or <<value>>.  A date value is a datetime.date or a
\* datetime.datetime (midnight), and the two kinds never compare equal.
DecimalDigits == <<"0", "1", "2", "3", "4", "5", "6", "7", "8", "9">>
IsDigit(c) == \E i \in 1..10 : DecimalDigits[i] = c
DigitVal(c) == (CHOOSE i \in 1..10 : DecimalDigits[i] = c) - 1

Date(y, m, d) == [type |-> "date", year |-> y, month |-> m, day |-> d]
DateTime(y, m, d) == [type |-> "datetime", year |-> y, month |-> m, day |-> d]

YEAR_FORMAT == "%Y"
MONTH_FORMAT == "%Y-%m"
DAY_FORMAT == "%Y-%m-%d"

DaysInMonth(y, m) ==
    IF m = 2
    THEN IF y % 4 = 0 /\ (y % 100 # 0 \/ y % 400 = 0) THEN 29 ELSE 28
    ELSE IF m \in {4, 6, 9, 11} THEN 30 ELSE 31

\* datetime.strptime on a string of the length to_date matched: %Y is four
\* digits, %m two digits 01..12, %d two digits or a space and a digit; <<>>
\* is its ValueError
Strptime(s, format) ==
    LET yOK == /\ \A i \in 1..4 : IsDigit(s[i])
        y == DigitVal(s[1]) * 1000 + DigitVal(s[2]) * 100
                + DigitVal(s[3]) * 10 + DigitVal(s[4])
        mOK == s[5] = "-" /\ IsDigit(s[6]) /\ IsDigit(s[7])
        m == DigitVal(s[6]) * 10 + DigitVal(s[7])
        dOK == /\ s[8] = "-" /\ IsDigit(s[10])
               /\ (IsDigit(s[9]) \/ s[9] = " ")
        d == (IF s[9] = " " THEN 0 ELSE DigitVal(s[9]) * 10) + DigitVal(s[10]) IN
    IF ~yOK \/ y < 1 THEN <<>>
    ELSE IF format = YEAR_FORMAT THEN <<DateTime(y, 1, 1)>>
    ELSE IF ~mOK \/ m \notin 1..12 THEN <<>>
    ELSE IF format = MONTH_FORMAT THEN <<DateTime(y, m, 1)>>
    ELSE IF ~dOK \/ d \notin 1..DaysInMonth(y, m) THEN <<>>
    ELSE <<DateTime(y, m, d)>>

UtilRaise(e) == [kind |-> "raise", exc |-> e, value |-> <<>>]
UtilReturn(v) == [kind |-> "return", exc |-> "", value |-> v]

\* Util.to_begin_or_end
ToBeginOrEnd(option) ==
    IF option = "begin" THEN UtilReturn(DateTime(1, 1, 1))
    ELSE IF option = "end" THEN UtilReturn(DateTime(9999, 12, 31))
    ELSE UtilRaise("ValueError")

\* datetime.date()
DateOf(dt) == [dt EXCEPT !.type = "date"]

\* Util.to_date
ToDate(begin_or_end, date_str) ==
    IF date_str = <<>> /\ begin_or_end = None THEN UtilRaise("ValueError")
    ELSE IF date_str = <<>> THEN ToBeginOrEnd(begin_or_end)
    ELSE LET s == date_str[1]
             parsed == IF Len(s) = 4 THEN Strptime(s, YEAR_FORMAT)
                       ELSE IF Len(s) = 7 THEN Strptime(s, MONTH_FORMAT)
                       ELSE IF Len(s) = 10 THEN Strptime(s, DAY_FORMAT)
                       ELSE <<>> IN
         IF parsed = <<>> THEN UtilRaise("ValueError")
         ELSE UtilReturn(DateOf(parsed[1]))

\* variant: None counts as a dimension, so an image without dimensions is
\* square
FindImageNoneIsSquare(search_results) ==
    IF \/ search_results.kind # "dict"
       \/ search_results.images.kind # "list"
    THEN UtilReturn(<<>>)
    ELSE LET imgs == search_results.images.items
             square == {i \in 1..Len(imgs) : imgs[i].height = imgs[i].width} IN
         IF square # {} THEN UtilReturn(imgs[Min(square)].uri)
         ELSE IF Len(imgs) > 0 THEN UtilReturn(imgs[1].uri)
         ELSE UtilReturn(<<>>)

\* Discogs.find_image: search_results is None, an empty mapping, or a
\* mapping whose "images" key is missing, holds something that is no list,
\* or holds a list of images; an image's uri, height and width are each
\* <<>> (key missing) or <<value>>, and .get("uri") is returned as it is
FindImage(search_results) ==
    IF \/ search_results.kind # "dict"
       \/ search_results.images.kind # "list"
    THEN UtilReturn(<<>>)
    ELSE LET imgs == search_results.images.items
             square == {i \in 1..Len(imgs) :
                           /\ imgs[i].height = imgs[i].width
                           /\ imgs[i].height # <<>>} IN
         IF square # {} THEN UtilReturn(imgs[Min(square)].uri)
         ELSE IF Len(imgs) > 0 THEN UtilReturn(imgs[1].uri)
         ELSE UtilReturn(<<>>)

\* ------------------------------------------------------ catalog rate limit
\* Discogs.remaining_requests is <<>> (None) or <<n>>; a response carries a
\* status code and the x-discogs-ratelimit-remaining header, <<>> when the
\* header is missing, else <<text>>.
RATE_LIMIT_THRESHOLD_TENTHS == 11
COOLDOWN == 5

\* int(limit): None is a TypeError, text that is no number a ValueError
IntOf(limit) ==
    IF limit = <<>> THEN [exc |-> "TypeError", value |-> 0]
    ELSE IF ~IsDigit(limit[1]) THEN [exc |-> "ValueError", value |-> 0]
    ELSE [exc |-> "", value |-> DigitVal(limit[1])]

\* Discogs.update_rate_limit
UpdateRateLimit(remaining, response) ==
    LET limit == IntOf(response.header) IN
    IF limit.exc # "" THEN [exc |-> limit.exc, remaining |-> remaining]
    ELSE [exc |-> "", remaining |-> <<limit.value>>]

\* Discogs.is_throttled
IsThrottled(remaining) ==
    /\ remaining # <<>>
    /\ remaining[1] * 10 <= RATE_LIMIT_THRESHOLD_TENTHS

\* Discogs.request: what the call leaves in remaining_requests, how long it
\* sleeps, and what it returns or raises; net is "error" when requests.get
\* raises, else the response
DiscogsRequest(remaining, net) ==
    IF net.kind = "error"
    THEN [remaining |-> remaining, slept |-> 0, exc |-> "ConnectionError"]
    ELSE LET upd == UpdateRateLimit(remaining, net) IN
         IF upd.exc # ""
         THEN [remaining |-> remaining, slept |-> 0, exc |-> upd.exc]
         ELSE [remaining |-> upd.remaining,
               slept |-> IF IsThrottled(upd.remaining) THEN COOLDOWN ELSE 0,
               exc |-> IF net.status = 200 THEN ""
                       ELSE "RequestException"]

\* -------------------------------------------------------------- statistics
\* The tables behind one statistics call: the rows of the called class's
\* table, [id, name], and the release table as batches of n rows that agree
\* in every column read here: rel is the release's artist_id (label_id when
\* the class is Label), runtime is in milliseconds.
RECURSIVE GCD(_, _)
GCD(a, b) == IF b = 0 THEN a ELSE GCD(b, a % b)

\* fractions <<numerator, denominator>> in lowest terms
Frac(n, d) == <<n \div GCD(n, d), d \div GCD(n, d)>>
FracAdd(x, y) == Frac(x[1] * y[2] + y[1] * x[2], x[2] * y[2])
FracSub(x, y) == Frac(x[1] * y[2] - y[1] * x[2], x[2] * y[2])
FracMul(x, y) == Frac(x[1] * y[1], x[2] * y[2])
FracDiv(x, y) == Frac(x[1] * y[2], x[2] * y[1])

\* round(num / den): to the nearest integer, a tie to the even one
Round(num, den) ==
    LET q == num \div den
        r == num % den IN
    IF 2 * r < den THEN q
    ELSE IF 2 * r > den THEN q + 1
    ELSE IF q % 2 = 0 THEN q ELSE q + 1

\* round(num / den, 2), in hundredths
Round2(num, den) == Round(num * 100, den)

RECURSIVE SumPairs(_)
SumPairs(S) ==
    IF S = {} THEN 0
    ELSE LET x == CHOOSE x \in S : TRUE IN x[2] + SumPairs(S \ {x})

\* func.count, func.sum(rating) and func.sum(runtime) over release rows
ReleaseCount(bs) == SumPairs({<<b.bid, b.n>> : b \in bs})
RatingSum(bs) == SumPairs({<<b.bid, b.n * b.rating>> : b \in bs})
RuntimeSum(bs) == SumPairs({<<b.bid, b.n * b.runtime>> : b \in bs})

\* the outcome of a statistics call: a number (a float in hundredths), a
\* list of rows, or an error
StatRaise(e) == [kind |-> "raise", exc |-> e, num |-> 0, rows |-> <<>>]
StatNum(n) == [kind |-> "return", exc |-> "", num |-> n, rows |-> <<>>]
StatRows(s) == [kind |-> "return", exc |-> "", num |-> 0, rows |-> s]

\* Release.average_runtime: avg(runtime) / 60000 rounded to two places; the
\* avg over no rows is None, whose division is a TypeError; any error is 0
AverageRuntime(st, dberr) ==
    IF dberr \/ ReleaseCount(st.batches) = 0 THEN StatNum(0)
    ELSE StatNum(Round2(RuntimeSum(st.batches),
                        ReleaseCount(st.batches) * 60000))

\* Release.total_runtime: sum(runtime) / 3600000 rounded to two places
TotalRuntime(st, dberr) ==
    IF dberr \/ ReleaseCount(st.batches) = 0 THEN StatNum(0)
    ELSE StatNum(Round2(RuntimeSum(st.batches), 3600000))

\* Release.ratings_average: round(avg(rating) or 0, 2)
RatingsAverage(st, dberr) ==
    IF dberr \/ ReleaseCount(st.batches) = 0 THEN StatNum(0)
    ELSE StatNum(Round2(RatingSum(st.batches), ReleaseCount(st.batches)))

\* the release rows of a sequence of batches, in its order
RECURSIVE Expand(_)
Expand(bseq) ==
    IF bseq = <<>> THEN <<>>
    ELSE [i \in 1..Head(bseq).n |->
             [rel |-> Head(bseq).rel, rating |-> Head(bseq).rating]]
         \o Expand(Tail(bseq))

FirstN(s, n) == SubSeq(s, 1, IF n < Len(s) THEN n ELSE Len(s))

\* Release.ratings_lowest and Release.ratings_highest: the limit is checked,
\* then the query runs with no handler around it; order_by is called on a
\* query that already has its LIMIT, which the query library either rejects
\* or applies as ORDER BY ... LIMIT, as its version has it
RatingsLowestOrHighest(st, limit, dberr, asc) ==
    IF limit <= 0 THEN {StatRaise("ValueError")}
    ELSE IF dberr THEN {StatRaise("OperationalError")}
    ELSE {StatRaise("InvalidRequestError")} \cup
         {StatRows(FirstN(Expand(s), limit)) :
             s \in {o \in Orderings(st.batches) :
                       \A i, j \in 1..Len(o) :
                           i < j => IF asc THEN o[i].rating <= o[j].rating
                                    ELSE o[i].rating >= o[j].rating}}

RatingsLowest(st, limit, dberr) ==
    RatingsLowestOrHighest(st, limit, dberr, TRUE)
RatingsHighest(st, limit, dberr) ==
    RatingsLowestOrHighest(st, limit, dberr, FALSE)

\* Release.listens_this_year: the releases whose listen_date is in the
\* current year
ListensThisYear(st, current_year, dberr) ==
    IF dberr THEN StatNum(0)
    ELSE StatNum(ReleaseCount({b \in st.batches :
                                  b.listen_year = current_year}))

\* Base.added_this_year: the rows whose date_added is in the current year;
\* in 2024 the count of filter(cls.date_added is None) is added, and that
\* Python expression is False, a filter no row passes
AddedThisYear(st, current_year, dberr) ==
    IF dberr THEN StatNum(0)
    ELSE StatNum(ReleaseCount({b \in st.batches :
                                  b.added_year = current_year})
                 + (IF current_year = 2024
                    THEN ReleaseCount({b \in st.batches : FALSE})
                    ELSE 0))

\* MusicBrainzEntity.total_count
TotalCount(st, c, dberr) ==
    IF dberr THEN StatNum(0)
    ELSE IF c = "Release" THEN StatNum(ReleaseCount(st.batches))
    ELSE StatNum(Cardinality(st.entities))

\* the release rows joined to an entity
ReleasesOf(st, e) == {b \in st.batches : b.rel = e.id}

\* ArtistOrLabel.frequency_highest: the entities joined to their releases,
\* without the excluded names, grouped by name, by count descending, the
\* first limit of them (image, always NULL here, is left out of the rows)
FrequencyHighest(st, limit, dberr) ==
    IF limit <= 0 THEN {StatRaise("ValueError")}
    ELSE IF dberr THEN {StatRows(<<>>)}
    ELSE LET joined == {e \in st.entities : ReleasesOf(st, e) # {}}
             kept == {e \in joined :
                         e.name \notin {<<"[NONE]">>, <<"Various Artists">>,
                                        <<>>, <<"[no label]">>}}
             rows == {[name |-> nm,
                       count |-> ReleaseCount(
                           UNION {ReleasesOf(st, e) :
                                     e \in {x \in kept : x.name = nm}})] :
                         nm \in {e.name : e \in kept}} IN
         {StatRows(FirstN(s, limit)) :
             s \in {o \in Orderings(rows) :
                       \A i, j \in 1..Len(o) :
                           i < j => o[i].count >= o[j].count}}

\* variant: entities with a single release are kept
AverageRatingsAndTotalCountsNoHaving(st, dberr) ==
    IF dberr THEN {StatRows(<<>>)}
    ELSE LET joined == {e \in st.entities : ReleasesOf(st, e) # {}}
             rows == {[id |-> e.id, name |-> e.name,
                       rating_sum |-> RatingSum(ReleasesOf(st, e)),
                       release_count |-> ReleaseCount(ReleasesOf(st, e))] :
                         e \in {x \in joined :
                                   x.name \notin {<<"[NONE]">>,
                                                  <<"Various Artists">>}}} IN
         {StatRows(s) :
             s \in {o \in Orderings(rows) :
                       \A i, j \in 1..Len(o) :
                           i < j => o[i].rating_sum * o[j].release_count
                                       >= o[j].rating_sum * o[i].release_count}}

\* ArtistOrLabel.average_ratings_and_total_counts: per entity joined to its
\* releases and not named "[NONE]" or "Various Artists", the average rating
\* (rating_sum / release_count) and the release count, for the entities
\* with more than one release, by average descending
AverageRatingsAndTotalCounts(st, dberr) ==
    IF dberr THEN {StatRows(<<>>)}
    ELSE LET joined == {e \in st.entities : ReleasesOf(st, e) # {}}
             rows == {[id |-> e.id, name |-> e.name,
                       rating_sum |-> RatingSum(ReleasesOf(st, e)),
                       release_count |-> ReleaseCount(ReleasesOf(st, e))] :
                         e \in {x \in joined :
                                   /\ x.name \notin {<<"[NONE]">>,
                                                     <<"Various Artists">>}
                                   /\ ReleaseCount(ReleasesOf(st, x)) > 1}} IN
         {StatRows(s) :
             s \in {o \in Orderings(rows) :
                       \A i, j \in 1..Len(o) :
                           i < j => o[i].rating_sum * o[j].release_count
                                       >= o[j].rating_sum * o[i].release_count}}

RECURSIVE FracSum(_)
FracSum(s) == IF s = <<>> THEN <<0, 1>> ELSE FracAdd(Head(s), FracSum(Tail(s)))

\* util.mean_avg_and_count: the mean of the entities' average ratings and
\* the mean of their release counts
MeanAvgAndCount(entities) ==
    [mean_avg |-> FracDiv(
         FracSum([i \in 1..Len(entities) |->
                     Frac(entities[i].rating_sum, entities[i].release_count)]),
         <<Len(entities), 1>>),
     mean_count |-> FracDiv(
         FracSum([i \in 1..Len(entities) |-> <<entities[i].release_count, 1>>]),
         <<Len(entities), 1>>)]

\* util.bayesian_avg: w * a + (1 - w) * m
BayesianAvg(item_weight, item_avg, mean_avg) ==
    FracAdd(FracMul(item_weight, item_avg),
            FracMul(FracSub(<<1, 1>>, item_weight), mean_avg))

\* sorted(items, key=rating, reverse=order): a stable sort either way
SortedByRating(items, descending) ==
    LET n == Len(items)
        perm == CHOOSE p \in [1..n -> 1..n] :
                    /\ \A i, j \in 1..n : i # j => p[i] # p[j]
                    /\ \A i, j \in 1..n :
                          i < j =>
                             \/ IF descending
                                THEN items[p[i]].rating > items[p[j]].rating
                                ELSE items[p[i]].rating < items[p[j]].rating
                             \/ /\ items[p[i]].rating = items[p[j]].rating
                                /\ p[i] < p[j] IN
    [i \in 1..n |-> items[perm[i]]]

\* ArtistOrLabel.average_ratings_bayesian
AverageRatingsBayesian(st, sort_order, dberr) ==
    IF sort_order \notin {"desc", "asc"} THEN {StatRaise("ValueError")}
    ELSE {IF o.rows = <<>> THEN StatRows(<<>>)
          ELSE LET entities == o.rows
                   mean == MeanAvgAndCount(entities)
                   items == [i \in 1..Len(entities) |->
                       LET entity_avg == entities[i].rating_sum
                                            \div entities[i].release_count
                           entity_count == entities[i].release_count
                           weight == FracDiv(<<entity_count, 1>>,
                                        FracAdd(<<entity_count, 1>>,
                                                mean.mean_count))
                           bayesian == BayesianAvg(weight, <<entity_avg, 1>>,
                                                   mean.mean_avg) IN
                       [id |-> entities[i].id, name |-> entities[i].name,
                        rating |-> Round(bayesian[1], bayesian[2]),
                        count |-> entities[i].release_count]] IN
               StatRows(SortedByRating(items, sort_order # "asc")) :
          o \in AverageRatingsAndTotalCounts(st, dberr)}

\* ------------------------------------------------------- specifications
InitRows == [id : 1..MaxInitRows, mbid : MBIDs \cup {None}, name : RowNames]

InitTables ==
    {t \in SUBSET InitRows :
        TableOK(t) /\ {r.id : r \in t} = 1..Cardinality(t)}

NoGoalState ==
    releases = {} /\ goals = {} /\ relSeq = 0 /\ now = 0 /\ lastCheck = {}

NoStoreState == store = EmptyStore /\ op = NoOp

NoQuery == query = [pc |-> "idle"]

NoStat == stat = [pc |-> "idle"]

NoUtil == util = [pc |-> "idle"]

NoRate == rate = [pc |-> "idle"]

NoAlarm == alarm = [pc |-> "idle"]

NoCreate == create = [pc |-> "idle"]

NoFiles == [files |-> {}, dirs |-> {}]

NoOutcome == Eff(ImgReturn(<<>>), NoFiles, {})

\* no get_image call of its own is modelled
NoImgCall ==
    img = [pc |-> "idle", entity_type |-> "", entity_id |-> 1, mbid |-> None,
           release_name |-> None, artist_name |-> None, label_name |-> None,
           url |-> <<>>, env |-> CHOOSE e \in ImgEnvs : TRUE,
           pre |-> NoFiles, out |-> NoOutcome]

\* concurrent requests calling create_if_not_exist on one table
Init ==
    /\ cls \in Classes
    /\ db \in InitTables
    /\ call = [p \in Procs |-> IdleCall]
    /\ NoGoalState
    /\ NoCreate
    /\ NoAlarm
    /\ NoRate
    /\ NoUtil
    /\ NoStat
    /\ NoImgCall
    /\ disk = NoFiles
    /\ NoStoreState
    /\ NoQuery

Step(p) ==
    \/ Call(p)
    \/ CheckMbid(p)
    \/ CheckName(p)
    \/ Search(p)
    \/ Insert(p)
    \/ FetchImage(p)

Next == \E p \in Procs : Step(p)

Spec == Init /\ [][Next]_vars

\* one request at a time: a call starts only when no other call is running
NoneRunning == \A q \in Procs : call[q].pc \in {"idle", "done"}

SeqStep(p) ==
    \/ NoneRunning /\ Call(p)
    \/ CheckMbid(p)
    \/ CheckName(p)
    \/ Search(p)
    \/ Insert(p)
    \/ FetchImage(p)

SeqNext == \E p \in Procs : SeqStep(p)

SeqSpec == Init /\ [][SeqNext]_vars

\* the goal tracker, with releases inserted and deleted between checks
GoalInit ==
    /\ cls = "Artist"
    /\ db = {}
    /\ call = [p \in Procs |-> IdleCall]
    /\ NoGoalState
    /\ NoCreate
    /\ NoAlarm
    /\ NoRate
    /\ NoUtil
    /\ NoStat
    /\ NoImgCall
    /\ disk = NoFiles
    /\ NoStoreState
    /\ NoQuery

GoalNext ==
    \/ AddGoal
    \/ InsertRelease
    \/ DeleteRelease
    \/ CheckGoals

GoalSpec == GoalInit /\ [][GoalNext]_vars

\* one Util.get_image call: the arguments a caller passes, what the
\* external services do during the call, and whether the image directories
\* exist yet
ImgArgTypes == VALID_TYPES \cup {"album"}
ImgArgUrls == {<<>>, << <<>> >>} \cup {<<u>> : u \in Urls}
ImgArgNames ==
    {<<None, None, None>>, <<"Album", "Doe", "Lab">>, <<"Album", "", "">>}

ImgInit ==
    /\ cls = "Artist"
    /\ db = {}
    /\ call = [p \in Procs |-> IdleCall]
    /\ NoGoalState
    /\ NoCreate
    /\ NoAlarm
    /\ NoRate
    /\ NoUtil
    /\ NoStat
    /\ NoStoreState
    /\ NoQuery
    /\ disk \in {NoFiles, [files |-> {}, dirs |-> VALID_TYPES]}
    /\ \E t \in ImgArgTypes, m \in {None, "X1"}, n \in ImgArgNames,
          u \in ImgArgUrls, env \in ImgEnvs :
          img = [pc |-> "called", entity_type |-> t, entity_id |-> 1,
                 mbid |-> m, release_name |-> n[1], artist_name |-> n[2],
                 label_name |-> n[3], url |-> u, env |-> env, pre |-> disk,
                 out |-> NoOutcome]

\* the call runs to its end
GetImageStep ==
    /\ img.pc = "called"
    /\ \E e \in GetImage(img.entity_type, img.entity_id, img.mbid,
                         img.release_name, img.artist_name, img.label_name,
                         img.url, img.env, disk) :
          /\ img' = [img EXCEPT !.pc = "done", !.out = e]
          /\ disk' = e.fs
    /\ UNCHANGED <<upsertVars, goalVars, storeVars, searchVars, statVars, utilVars,
                 rateVars, alarmVars, createVars>>

ImgNext == GetImageStep

ImgSpec == ImgInit /\ [][ImgNext]_vars

\* inserts, updates and deletes on the related tables, any of which the
\* store may fail
StoreInit ==
    /\ cls = "Artist"
    /\ db = {}
    /\ call = [p \in Procs |-> IdleCall]
    /\ NoGoalState
    /\ NoCreate
    /\ NoAlarm
    /\ NoRate
    /\ NoUtil
    /\ NoStat
    /\ NoImgCall
    /\ disk = NoFiles
    /\ NoStoreState
    /\ NoQuery

StoreNext ==
    \/ StoreInsert
    \/ StoreUpdate
    \/ StoreDelete

StoreSpec == StoreInit /\ [][StoreNext]_vars

\* one dynamic_search call on Release, Artist or Label: the stored rows and
\* the filters mapping a caller passes
ArtistPool ==
    {[id |-> 1, name |-> <<"A", "b">>, begin |-> 1, end |-> 2],
     [id |-> 2, name |-> <<"_">>, begin |-> 2, end |-> 2],
     [id |-> 3, name |-> <<"[NONE]">>, begin |-> 1, end |-> 1],
     [id |-> 3, name |-> <<"Various Artists">>, begin |-> 1, end |-> 1]}

LabelPool ==
    {[id |-> 1, name |-> <<"A", "b">>, begin |-> 1, end |-> 2],
     [id |-> 2, name |-> <<"_">>, begin |-> 2, end |-> 2],
     [id |-> 3, name |-> <<"[no label]">>, begin |-> 1, end |-> 1]}

ReleasePool ==
    {[id |-> 1, name |-> <<"A", "b">>, artist_id |-> 1, label_id |-> 1,
      rating |-> 1, year |-> 1],
     [id |-> 2, name |-> <<"_">>, artist_id |-> 2, label_id |-> 2,
      rating |-> 2, year |-> 1],
     [id |-> 3, name |-> <<"A", "b">>, artist_id |-> 3, label_id |-> 3,
      rating |-> 2, year |-> 2]}

SearchStores ==
    {st \in [artist : SUBSET ArtistPool, label : {LabelPool},
             release : SUBSET ReleasePool, review : {{}}] :
        /\ RefOK(st)
        /\ Cardinality(Ids(st.artist)) = Cardinality(st.artist)}

ReleaseFilters ==
    [name : {<<>>, << <<"a">> >>},
     artist : {<<>>, << <<>> >>, << <<"a">> >>, << <<"_">> >>, << <<"z">> >>},
     label : {<<>>, << <<"_">> >>, << <<"z">> >>},
     rating : {<<>>, <<"">>, <<"2">>},
     rating_comparison : {<<>>, <<"<">>, <<"=">>, <<">">>, <<"!">>},
     year : {<<>>, <<"1">>},
     year_comparison : {<<>>, <<"=">>, <<"!">>}]

ArtistOrLabelFilters ==
    [name : {<<>>, << <<>> >>, << <<"a">> >>},
     begin_date : {<<>>, <<"">>, <<"1">>},
     begin_comparison : {<<>>, <<"<">>, <<"=">>, <<">">>, <<"!">>},
     end_date : {<<>>, <<"2">>},
     end_comparison : {<<>>, <<"=">>, <<"!">>}]

SearchInit ==
    /\ cls = "Artist"
    /\ db = {}
    /\ call = [p \in Procs |-> IdleCall]
    /\ NoGoalState
    /\ NoCreate
    /\ NoAlarm
    /\ NoRate
    /\ NoUtil
    /\ NoStat
    /\ NoImgCall
    /\ disk = NoFiles
    /\ NoStoreState
    /\ \E st \in SearchStores :
          \/ \E f \in ReleaseFilters :
                query = [pc |-> "called", cls |-> "Release", st |-> st,
                         f |-> f, out |-> QueryRows(<<>>)]
          \/ \E c \in Classes, f \in ArtistOrLabelFilters :
                query = [pc |-> "called", cls |-> c, st |-> st, f |-> f,
                         out |-> QueryRows(<<>>)]

\* Release.dynamic_search(data) runs to its end
ReleaseSearch ==
    /\ query.pc = "called" /\ query.cls = "Release"
    /\ \E o \in ReleaseDynamicSearch(query.st, query.f) :
          query' = [query EXCEPT !.pc = "done", !.out = o]
    /\ UNCHANGED <<upsertVars, goalVars, imgVars, storeVars, statVars, utilVars,
                 rateVars, alarmVars, createVars>>

\* Artist.dynamic_search(filters) or Label.dynamic_search(filters) runs to
\* its end
ArtistOrLabelSearch ==
    /\ query.pc = "called" /\ query.cls \in Classes
    /\ LET table == IF query.cls = "Artist" THEN query.st.artist
                    ELSE query.st.label IN
          \E o \in ArtistOrLabelDynamicSearch(table, query.f) :
              query' = [query EXCEPT !.pc = "done", !.out = o]
    /\ UNCHANGED <<upsertVars, goalVars, imgVars, storeVars, statVars, utilVars,
                 rateVars, alarmVars, createVars>>

SearchNext ==
    \/ ReleaseSearch
    \/ ArtistOrLabelSearch

SearchSpec == SearchInit /\ [][SearchNext]_vars

\* one statistics call on Release, Artist or Label: the stored rows, the
\* arguments, the year the clock shows and whether the query fails
StatEntityPool ==
    {[id |-> 1, name |-> <<"A", "b">>], [id |-> 2, name |-> <<"_">>]}
        \cup [id : {3}, name : PlaceholderNames \cup {<<>>}]

StatBatchPool ==
    {[bid |-> 1, rel |-> 1, rating |-> 50, runtime |-> 90000,
      listen_year |-> 2025, added_year |-> 2025, n |-> 100],
     [bid |-> 2, rel |-> 2, rating |-> 100, runtime |-> 60000,
      listen_year |-> 2024, added_year |-> 2025, n |-> 1],
     [bid |-> 3, rel |-> 2, rating |-> 100, runtime |-> 60000,
      listen_year |-> 2025, added_year |-> 2024, n |-> 1],
     [bid |-> 4, rel |-> 3, rating |-> 70, runtime |-> 45000,
      listen_year |-> 2024, added_year |-> 2024, n |-> 1],
     [bid |-> 5, rel |-> 3, rating |-> 71, runtime |-> 45000,
      listen_year |-> 2024, added_year |-> 2024, n |-> 2]}

StatStores ==
    {st \in [entities : SUBSET StatEntityPool, batches : SUBSET StatBatchPool] :
        /\ Cardinality(Ids(st.entities)) = Cardinality(st.entities)
        /\ \A b \in st.batches : b.rel \in Ids(st.entities)}

StatLimits == {0, 1, 10}

StatCalls ==
    [cls : Classes, fn : {"frequency_highest"}, limit : StatLimits,
     sort_order : {"desc"}, current_year : {2025}]
    \cup [cls : Classes, fn : {"average_ratings_and_total_counts"},
          limit : {10}, sort_order : {"desc"}, current_year : {2025}]
    \cup [cls : Classes, fn : {"average_ratings_bayesian"}, limit : {10},
          sort_order : {"desc", "asc", "up"}, current_year : {2025}]
    \cup [cls : {"Release"}, fn : {"ratings_lowest", "ratings_highest"},
          limit : StatLimits, sort_order : {"desc"}, current_year : {2025}]
    \cup [cls : {"Release"},
          fn : {"average_runtime", "total_runtime", "ratings_average"},
          limit : {10}, sort_order : {"desc"}, current_year : {2025}]
    \cup [cls : {"Release"}, fn : {"listens_this_year", "added_this_year"},
          limit : {10}, sort_order : {"desc"}, current_year : {2024, 2025}]
    \cup [cls : Classes \cup {"Release"}, fn : {"total_count"}, limit : {10},
          sort_order : {"desc"}, current_year : {2025}]

StatInit ==
    /\ cls = "Artist"
    /\ db = {}
    /\ call = [p \in Procs |-> IdleCall]
    /\ NoGoalState
    /\ NoCreate
    /\ NoAlarm
    /\ NoRate
    /\ NoUtil
    /\ NoImgCall
    /\ disk = NoFiles
    /\ NoStoreState
    /\ NoQuery
    /\ \E st \in StatStores, c \in StatCalls, dberr \in BOOLEAN :
          stat = [pc |-> "called", st |-> st, c |-> c, dberr |-> dberr,
                  out |-> StatNum(0)]

\* the outcomes of the called function
StatOutcomes(st, c, dberr) ==
    IF c.fn = "frequency_highest" THEN FrequencyHighest(st, c.limit, dberr)
    ELSE IF c.fn = "average_ratings_and_total_counts"
    THEN AverageRatingsAndTotalCounts(st, dberr)
    ELSE IF c.fn = "average_ratings_bayesian"
    THEN AverageRatingsBayesian(st, c.sort_order, dberr)
    ELSE IF c.fn = "ratings_lowest" THEN RatingsLowest(st, c.limit, dberr)
    ELSE IF c.fn = "ratings_highest" THEN RatingsHighest(st, c.limit, dberr)
    ELSE IF c.fn = "average_runtime" THEN {AverageRuntime(st, dberr)}
    ELSE IF c.fn = "total_runtime" THEN {TotalRuntime(st, dberr)}
    ELSE IF c.fn = "ratings_average" THEN {RatingsAverage(st, dberr)}
    ELSE IF c.fn = "listens_this_year"
    THEN {ListensThisYear(st, c.current_year, dberr)}
    ELSE IF c.fn = "added_this_year"
    THEN {AddedThisYear(st, c.current_year, dberr)}
    ELSE {TotalCount(st, c.cls, dberr)}

\* the statistics call runs to its end
StatCall ==
    /\ stat.pc = "called"
    /\ \E o \in StatOutcomes(stat.st, stat.c, stat.dberr) :
          stat' = [stat EXCEPT !.pc = "done", !.out = o]
    /\ UNCHANGED <<upsertVars, goalVars, imgVars, storeVars, searchVars, utilVars,
                 rateVars, alarmVars, createVars>>

StatNext == StatCall

StatSpec == StatInit /\ [][StatNext]_vars

\* one call of Util.to_date, Util.get_image_type_from_bytes or
\* Discogs.find_image with the arguments a caller can pass
DateStrArgs ==
    {<<>>,
     << <<>> >>,
     << <<"2", "0", "2", "3">> >>,
     << <<"2", "0", "2", "3", "-", "0", "6">> >>,
     << <<"2", "0", "2", "3", "-", "0", "6", "-", "1", "5">> >>,
     << <<"2", "0", "2", "4", "-", "0", "2", "-", "2", "9">> >>,
     << <<"2", "0", "2", "3", "-", "0", "2", "-", "2", "9">> >>,
     << <<"2", "0", "2", "3", "-", "0", "6", "-", " ", "5">> >>,
     << <<"0", "0", "0", "0">> >>,
     << <<"2", "0", "2">> >>,
     << <<"2", "0", "2", "3", "4">> >>,
     << <<"2", "0", "2", "3", "-", "6">> >>,
     << <<"2", "0", "2", "3", "-", "1", "3">> >>,
     << <<"2", "0", "2", "3", "-", "0", "6", "-", "1">> >>,
     << <<"2", "0", "2", "3", "-", "0", "6", "-", "3", "2">> >>,
     << <<"2", "0", "2", "3", "/", "0", "6", "/", "1", "5">> >>,
     << <<"i", "n", "v", "a", "l", "i", "d">> >>}

BeginOrEndArgs == {None, "begin", "end", "invalid", ""}

ByteArgs ==
    ByteStrings \cup
    {<<>>,
     SubSeq(JpegBytes, 1, 7),
     JPEG_HEADER \o <<"00", "00", "00", "00", "00", "00">>,
     <<"ff", "d8", "00", "00", "00", "00", "00", "00">>,
     PNG_HEADER,
     SubSeq(PNG_HEADER, 1, 7),
     <<"00", "00", "00", "00", "00", "00", "00", "00">>}

ImageArgs ==
    [uri : {<<>>, <<"a">>, <<"b">>}, height : {<<>>, <<1>>, <<2>>},
     width : {<<>>, <<1>>}]

MaxImages == 2

ImageLists == UNION {[1..n -> ImageArgs] : n \in 0..MaxImages}

SearchResultArgs ==
    {[kind |-> "None", images |-> [kind |-> "missing", items |-> <<>>]],
     [kind |-> "empty", images |-> [kind |-> "missing", items |-> <<>>]],
     [kind |-> "dict", images |-> [kind |-> "missing", items |-> <<>>]],
     [kind |-> "dict", images |-> [kind |-> "str", items |-> <<>>]]}
    \cup {[kind |-> "dict", images |-> [kind |-> "list", items |-> l]] :
             l \in ImageLists}

UtilInit ==
    /\ cls = "Artist"
    /\ db = {}
    /\ call = [p \in Procs |-> IdleCall]
    /\ NoGoalState
    /\ NoCreate
    /\ NoAlarm
    /\ NoRate
    /\ NoStat
    /\ NoImgCall
    /\ disk = NoFiles
    /\ NoStoreState
    /\ NoQuery
    /\ \/ \E b \in BeginOrEndArgs, d \in DateStrArgs :
             util = [pc |-> "called", fn |-> "to_date",
                     args |-> [begin_or_end |-> b, date_str |-> d],
                     out |-> UtilReturn(<<>>)]
       \/ \E b \in ByteArgs :
             util = [pc |-> "called", fn |-> "get_image_type_from_bytes",
                     args |-> [bytestr |-> b], out |-> UtilReturn(<<>>)]
       \/ \E r \in SearchResultArgs :
             util = [pc |-> "called", fn |-> "find_image",
                     args |-> [search_results |-> r],
                     out |-> UtilReturn(<<>>)]

\* Util.to_date(begin_or_end, date_str)
ToDateCall ==
    /\ util.pc = "called" /\ util.fn = "to_date"
    /\ util' = [util EXCEPT !.pc = "done",
                   !.out = ToDate(util.args.begin_or_end, util.args.date_str)]
    /\ UNCHANGED <<upsertVars, goalVars, imgVars, storeVars, searchVars,
                   statVars, rateVars, alarmVars, createVars>>

\* Util.get_image_type_from_bytes(bytestr)
GetImageTypeFromBytesCall ==
    /\ util.pc = "called" /\ util.fn = "get_image_type_from_bytes"
    /\ LET ext == GetImageTypeFromBytes(util.args.bytestr) IN
          util' = [util EXCEPT !.pc = "done",
                      !.out = IF ext = "" THEN UtilRaise("ValueError")
                              ELSE UtilReturn(ext)]
    /\ UNCHANGED <<upsertVars, goalVars, imgVars, storeVars, searchVars,
                   statVars, rateVars, alarmVars, createVars>>

\* Discogs.find_image(search_results)
FindImageCall ==
    /\ util.pc = "called" /\ util.fn = "find_image"
    /\ util' = [util EXCEPT !.pc = "done",
                   !.out = FindImage(util.args.search_results)]
    /\ UNCHANGED <<upsertVars, goalVars, imgVars, storeVars, searchVars,
                   statVars, rateVars, alarmVars, createVars>>

UtilNext ==
    \/ ToDateCall
    \/ GetImageTypeFromBytesCall
    \/ FindImageCall

UtilSpec == UtilInit /\ [][UtilNext]_vars

\* a client that calls Discogs.request one call after the other, with idle
\* time between calls
MaxRequests == 3
MaxIdle == 2
MaxLatency == 1

NetOutcomesOfRequest ==
    {[kind |-> "error", status |-> 0, header |-> <<>>]}
    \cup [kind : {"response"}, status : {200, 404},
          header : {<<>>, <<"0">>, <<"1">>, <<"2">>, <<"x">>}]

NoCall ==
    [sentAt |-> 0, netDoneAt |-> 0, net |-> [kind |-> "none"],
     before |-> <<>>, after |-> <<>>, slept |-> 0, exc |-> ""]

RateInit ==
    /\ cls = "Artist"
    /\ db = {}
    /\ call = [p \in Procs |-> IdleCall]
    /\ NoGoalState
    /\ NoCreate
    /\ NoAlarm
    /\ NoImgCall
    /\ disk = NoFiles
    /\ NoStoreState
    /\ NoQuery
    /\ NoStat
    /\ NoUtil
    /\ rate = [pc |-> "ready", remaining_requests |-> <<>>, clock |-> 0,
               idle |-> 0, n |-> 0, last |-> NoCall, prev |-> NoCall]

\* one Discogs.request call from its requests.get to its return or raise
RequestCall ==
    /\ rate.n < MaxRequests
    /\ \E net \in NetOutcomesOfRequest, latency \in 0..MaxLatency :
          LET res == DiscogsRequest(rate.remaining_requests, net) IN
          rate' = [rate EXCEPT
                      !.remaining_requests = res.remaining,
                      !.clock = @ + latency + res.slept,
                      !.idle = 0,
                      !.n = @ + 1,
                      !.prev = rate.last,
                      !.last = [sentAt |-> rate.clock,
                                netDoneAt |-> rate.clock + latency,
                                net |-> net,
                                before |-> rate.remaining_requests,
                                after |-> res.remaining,
                                slept |-> res.slept, exc |-> res.exc]]
    /\ UNCHANGED <<upsertVars, goalVars, imgVars, storeVars, searchVars,
                   statVars, utilVars, alarmVars, createVars>>

\* time passes between two calls
Idle ==
    /\ rate.n < MaxRequests
    /\ rate.idle < MaxIdle
    /\ rate' = [rate EXCEPT !.clock = @ + 1, !.idle = @ + 1]
    /\ UNCHANGED <<upsertVars, goalVars, imgVars, storeVars, searchVars,
                   statVars, utilVars, alarmVars, createVars>>

RateNext ==
    \/ RequestCall
    \/ Idle

RateSpec == RateInit /\ [][RateNext]_vars

\* the process's one SIGALRM timer around Util.get_caa_image: the request
\* handler is outside the call ("outside"), inside it ("caa"), or past it
\* in the code that runs after it returned or raised ("after")
TIMEOUT_DURATION == 5
MaxClock == 8
MaxCaaCalls == 2

AlarmInit ==
    /\ cls = "Artist"
    /\ db = {}
    /\ call = [p \in Procs |-> IdleCall]
    /\ NoGoalState
    /\ NoCreate
    /\ NoImgCall
    /\ disk = NoFiles
    /\ NoStoreState
    /\ NoQuery
    /\ NoStat
    /\ NoUtil
    /\ NoRate
    /\ alarm = [pc |-> "outside", clock |-> 0, pending |-> <<>>, calls |-> 0,
                ended |-> "", raisedIn |-> {}]

\* Util.get_caa_image up to its call of MusicBrainz.get_image:
\* signal.signal installs timeout_handler and signal.alarm(5) sets the timer,
\* replacing one that is still pending
GetCaaImageArms ==
    /\ alarm.pc \in {"outside", "after"}
    /\ alarm.calls < MaxCaaCalls
    /\ alarm' = [alarm EXCEPT !.pc = "caa",
                    !.pending = <<alarm.clock + TIMEOUT_DURATION>>,
                    !.calls = @ + 1, !.ended = ""]
    /\ UNCHANGED <<upsertVars, goalVars, imgVars, storeVars, searchVars,
                   statVars, utilVars, rateVars, createVars>>

\* Util.get_caa_image from the answer of MusicBrainz.get_image to its return
\* or its ValueError: the image with its type, no image, or bytes of an
\* unsupported type; the timer is left as it is
GetCaaImageEnds ==
    /\ alarm.pc = "caa"
    /\ \E how \in {"image", "none", "bad_bytes"} :
          alarm' = [alarm EXCEPT !.pc = "after", !.ended = how]
    /\ UNCHANGED <<upsertVars, goalVars, imgVars, storeVars, searchVars,
                   statVars, utilVars, rateVars, createVars>>

\* a second passes without the timer running out
AlarmTick ==
    /\ alarm.clock < MaxClock
    /\ IF alarm.pending = <<>> THEN TRUE
       ELSE alarm.clock + 1 <= alarm.pending[1]
    /\ alarm' = [alarm EXCEPT !.clock = @ + 1]
    /\ UNCHANGED <<upsertVars, goalVars, imgVars, storeVars, searchVars,
                   statVars, utilVars, rateVars, createVars>>

\* the timer runs out: timeout_handler raises TimeoutException in whatever
\* code the process is running; inside the primary attempt that ends the
\* attempt
TimeoutHandler ==
    /\ alarm.pending # <<>> /\ alarm.clock = alarm.pending[1]
    /\ alarm' = [alarm EXCEPT !.pending = <<>>,
                    !.raisedIn = @ \cup {alarm.pc},
                    !.pc = IF alarm.pc = "caa" THEN "after" ELSE @,
                    !.ended = IF alarm.pc = "caa" THEN "timeout" ELSE @]
    /\ UNCHANGED <<upsertVars, goalVars, imgVars, storeVars, searchVars,
                   statVars, utilVars, rateVars, createVars>>

AlarmNext ==
    \/ GetCaaImageArms
    \/ GetCaaImageEnds
    \/ AlarmTick
    \/ TimeoutHandler

AlarmSpec == AlarmInit /\ [][AlarmNext]_vars

\* one Release.create_new call: the submitted data, whether the store fails
\* the insert, what the external services do during the first and the
\* second Util.get_image call, and whether the image directories exist yet
ImageCallOf(e) ==
    [kind |-> e.kind, exc |-> e.exc, path |-> e.path, stages |-> e.stages,
     fs |-> e.fs]

CreateOut(kind, exc, ret, inserted, fs, calls) ==
    [kind |-> kind, exc |-> exc, ret |-> ret, inserted |-> inserted,
     fs |-> fs, calls |-> calls]

\* the second Util.get_image call of Release.create_new: reading a key the
\* data lacks is the KeyError the try block catches, any other exception of
\* the call leaves create_new
CreateNewSecondImage(data, release_id, env2, first) ==
    IF ~data.has_keys
    THEN {CreateOut("return", "", release_id, release_id, first.fs,
                    <<ImageCallOf(first)>>)}
    ELSE {IF e2.kind = "raise" /\ e2.exc # "KeyError"
          THEN CreateOut("raise", e2.exc, 0, release_id, e2.fs,
                         <<ImageCallOf(first), ImageCallOf(e2)>>)
          ELSE CreateOut("return", "", release_id, release_id, e2.fs,
                         <<ImageCallOf(first), ImageCallOf(e2)>>) :
          e2 \in GetImage("release", release_id, data.release_group_mbid,
                          data.name, data.artist_name, data.label_name,
                          <<>>, env2, first.fs)}

\* Release.create_new: the type check, construct_item and insert, then
\* Util.get_image with the submitted URL when data["image"] is not None and
\* with the names and the release-group id otherwise, then Util.get_image
\* with the names and the release-group id once more, then the id
CreateNew(data, release_id, dberr, env1, env2, fs) ==
    IF ~data.is_dict
    THEN {CreateOut("raise", "ValueError", 0, 0, fs, <<>>)}
    ELSE IF dberr THEN {CreateOut("raise", "Exception", 0, 0, fs, <<>>)}
    ELSE IF data.image = <<>> /\ ~data.has_keys
    THEN {CreateOut("raise", "KeyError", 0, release_id, fs, <<>>)}
    ELSE LET firsts ==
                 IF data.image # <<>>
                 THEN GetImage("release", release_id, None, None, None,
                               None, data.image, env1, fs)
                 ELSE GetImage("release", release_id,
                               data.release_group_mbid, data.name,
                               data.artist_name, data.label_name, <<>>,
                               env1, fs) IN
         UNION {IF e1.kind = "raise"
                THEN {CreateOut("raise", e1.exc, 0, release_id, e1.fs,
                                <<ImageCallOf(e1)>>)}
                ELSE CreateNewSecondImage(data, release_id, env2, e1) :
                e1 \in firsts}

\* the dictionaries the submit handlers build, a dictionary without the
\* name and release-group keys, and a value that is no dictionary
CreateData ==
    [is_dict : {TRUE}, has_keys : BOOLEAN, image : ImgArgUrls,
     name : {"Album"}, artist_name : {"Doe"}, label_name : {"Lab"},
     release_group_mbid : {None, "X1"}, listen_date : {1}]
    \cup [is_dict : {FALSE}, has_keys : {FALSE}, image : {<<>>},
          name : {None}, artist_name : {None}, label_name : {None},
          release_group_mbid : {None}, listen_date : {1}]

\* the services during the first call, and during the second, which makes
\* no download of its own
CreateEnvs1 == {e \in ImgEnvs : e.search = "id" /\ e.detail = "url"}
CreateEnvs2 == {e \in CreateEnvs1 : e.dl = "ok"}

NoCreateOutcome == CreateOut("return", "", 0, 0, NoFiles, <<>>)

CreateInit ==
    /\ cls = "Artist"
    /\ db = {}
    /\ call = [p \in Procs |-> IdleCall]
    /\ relSeq \in 0..(MaxReleases - 1)
    /\ releases = {[id |-> i, listen_date |-> 1] : i \in 1..relSeq}
    /\ goals = {} /\ now = 0 /\ lastCheck = {}
    /\ NoAlarm
    /\ NoRate
    /\ NoUtil
    /\ NoStat
    /\ NoImgCall
    /\ NoStoreState
    /\ NoQuery
    /\ disk \in {NoFiles, [files |-> {}, dirs |-> VALID_TYPES]}
    /\ \E d \in CreateData, dberr \in BOOLEAN, e1 \in CreateEnvs1,
          e2 \in CreateEnvs2 :
          create = [pc |-> "called", data |-> d, dberr |-> dberr,
                    env1 |-> e1, env2 |-> e2, pre |-> disk,
                    out |-> NoCreateOutcome]

\* the call runs to its end: the row is stored under the next id of the
\* sequence and the image files are written
CreateNewCall ==
    /\ create.pc = "called"
    /\ \E o \in CreateNew(create.data, relSeq + 1, create.dberr,
                          create.env1, create.env2, disk) :
          /\ create' = [create EXCEPT !.pc = "done", !.out = o]
          /\ disk' = o.fs
          /\ IF o.inserted # 0
             THEN /\ releases' = releases \cup
                        {[id |-> o.inserted,
                          listen_date |-> create.data.listen_date]}
                  /\ relSeq' = o.inserted
             ELSE UNCHANGED <<releases, relSeq>>
    /\ UNCHANGED <<upsertVars, goals, now, lastCheck, img, storeVars,
                   searchVars, statVars, utilVars, rateVars, alarmVars>>

CreateNext == CreateNewCall

CreateSpec == CreateInit /\ [][CreateNext]_vars

\* ------------------------------------------------------------------ claims
InsertCount == Cardinality({p \in Procs : call[p].inserted # 0})

\* the rows the table held before any modelled call inserted
InitialRows == {r \in db : \A p \in Procs : call[p].inserted # r.id}

Returned(p) == call[p].pc = "done" /\ call[p].exc = "" /\ call[p].ret # 0

\* C1 (SeqSpec): two calls in sequence with the same name and the same
\* external id, for an entity the table does not hold and the catalog
\* answers for, perform exactly one insert and both return the same id.
C1_TwoCallsOneInsertSameId ==
    ( /\ call["p1"].pc = "done" /\ call["p2"].pc = "done"
      /\ call["p1"].name = call["p2"].name
      /\ call["p1"].mbid = call["p2"].mbid
      /\ call["p1"].mbid # None
      /\ call["p1"].name # <<>>
      /\ ExistsByMbid(InitialRows, call["p1"].mbid) = {}
      /\ \A r \in InitialRows : ~ILikeContains(r.name, call["p1"].name)
      /\ \A p \in Procs : call[p].exc \notin {"WebServiceError", "KeyError"} )
    => /\ InsertCount = 1
       /\ Returned("p1") /\ Returned("p2")
       /\ call["p1"].ret = call["p2"].ret

\* C2 (Spec): no two rows hold the same non-null external id, and of two
\* calls that both reached the insert with the same external id exactly one
\* inserted; the other ended with IntegrityError after a rollback and
\* inserted nothing.
C2_ConflictSurfacesAndMbidUnique ==
    /\ \A r1, r2 \in db :
          r1.mbid # None /\ r1.mbid = r2.mbid => r1 = r2
    /\ \A p, q \in Procs :
          ( /\ p # q
            /\ call[p].attempted /\ call[q].attempted
            /\ call[p].item.mbid = call[q].item.mbid )
          => \/ /\ call[p].inserted # 0
                /\ call[q].pc = "done" /\ call[q].exc = "IntegrityError"
                /\ call[q].rolledBack /\ call[q].inserted = 0
             \/ /\ call[q].inserted # 0
                /\ call[p].pc = "done" /\ call[p].exc = "IntegrityError"
                /\ call[p].rolledBack /\ call[p].inserted = 0

C2_Witness ==
    \E p, q \in Procs :
        /\ p # q
        /\ call[p].searched /\ call[q].searched
        /\ call[p].attempted /\ call[q].attempted
        /\ call[p].item.mbid = call[q].item.mbid
        /\ call[q].exc = "IntegrityError"
        /\ \E r \in db : r.id = call[p].inserted /\ r.mbid = call[q].item.mbid

C4_ContainsHitReturnsRow ==
    [][\A p \in Procs :
          ( /\ call[p].pc = "exists_by_name"
            /\ call'[p].pc # "exists_by_name"
            /\ \E r \in db : Contains(r.name, call[p].name) )
          => /\ call'[p].pc = "done"
             /\ call'[p].exc = ""
             /\ \E r \in db : Contains(r.name, call[p].name)
                               /\ call'[p].ret = r.id
             /\ ~call'[p].searched
             /\ call'[p].inserted = 0
             /\ db' = db]_vars

\* C4 amended (Spec): when the name check runs with a non-empty name and
\* some row's name matches the case-insensitive LIKE pattern %name%, the
\* call ends there returning the id of a row matching that pattern, with no
\* catalog lookup and no insert.
C4_ILikeHitReturnsRow ==
    [][\A p \in Procs :
          ( /\ call[p].pc = "exists_by_name"
            /\ call'[p].pc # "exists_by_name"
            /\ call[p].name # <<>>
            /\ \E r \in db : ILikeContains(r.name, call[p].name) )
          => /\ call'[p].pc = "done"
             /\ call'[p].exc = ""
             /\ \E r \in db : ILikeContains(r.name, call[p].name)
                               /\ call'[p].ret = r.id
             /\ ~call'[p].searched
             /\ call'[p].inserted = 0
             /\ db' = db]_vars

\* a call returned a row by name that matches only case-insensitively
C4_Witness ==
    \E p \in Procs :
        /\ Returned(p) /\ call[p].via = "name"
        /\ call[p].name # <<>>
        /\ ~call[p].searched /\ call[p].inserted = 0
        /\ ExistsByMbid(db, call[p].mbid) = {}
        /\ \E r \in db : /\ r.id = call[p].ret
                          /\ r.name # call[p].name
                          /\ Contains(r.name, call[p].name)

\* C5 (Spec): a call whose catalog lookup failed or returned nothing ends
\* without an error, having inserted one row that holds only the given name,
\* and returns that row's id.
C5_LookupFailureInsertsNameOnly ==
    \A p \in Procs :
        (call[p].pc = "done" /\ call[p].searched /\ ~call[p].item.has_mbid)
        => /\ call[p].exc = ""
           /\ call[p].inserted # 0
           /\ call[p].ret = call[p].inserted
           /\ \E r \in db : /\ r.id = call[p].inserted
                             /\ r.name = call[p].name
                             /\ r.mbid = None

C7_InsertedCallReturnsId ==
    \A p \in Procs :
        (call[p].pc = "done" /\ call[p].inserted # 0)
        => call[p].exc = "" /\ call[p].ret = call[p].inserted

C9_CompletionIsFinal ==
    [][\A g \in goals :
          g.completed # <<>>
          => \E g2 \in goals' : g2.id = g.id /\ g2.completed = g.completed]_vars

\* a goal completed by an earlier check is below its target at a later one
C9_Witness ==
    \E g \in goals :
        /\ g.completed # <<>>
        /\ g.completed[1] < now
        /\ \A s \in lastCheck : s[1] # g.id
        /\ NewReleasesSinceStartDate(g, releases) < g.amount

\* C10 (GoalSpec): a goal whose type is not "release" is never completed.
C10_OnlyReleaseGoalsComplete ==
    \A g \in goals : g.type # "release" => g.completed = <<>>

\* check_goals evaluated a non-release goal whose count reached its amount
C10_Witness ==
    \E g \in goals, s \in lastCheck :
        /\ g.type # "release"
        /\ s[1] = g.id /\ s[2] >= g.amount
        /\ g.completed = <<>>

\* C11 (GoalSpec): a check_goals call passes to update() only goals that
\* were incomplete before the call and hold the call's timestamp after it;
\* a goal that was already complete, or whose release count is below its
\* amount, is not passed to update() and its row is unchanged.
C11_OnlyNewlyCompletedWritten ==
    [][now' # now =>
          /\ \A s \in lastCheck' :
                s[3] => \E g \in goals, g2 \in goals' :
                           /\ g.id = s[1] /\ g2.id = s[1]
                           /\ g.completed = <<>>
                           /\ g2.completed = <<now'>>
          /\ \A g \in goals :
                (g.completed # <<>>
                    \/ NewReleasesSinceStartDate(g, releases) < g.amount)
                => /\ g \in goals'
                   /\ \A s \in lastCheck' : s[1] = g.id => ~s[3]]_vars

\* the last check wrote the goal it completed and left alone a goal that an
\* earlier check had completed
C11_Witness ==
    /\ \E g \in goals, s \in lastCheck :
          s[1] = g.id /\ s[3] /\ g.completed = <<now>>
    /\ \E g \in goals :
          /\ g.completed # <<>> /\ g.completed[1] < now
          /\ \A s \in lastCheck : s[1] # g.id

\* the arguments of the modelled get_image call
ImgDone == img.pc = "done"
ImgNoUrl == img.url = <<>> \/ img.url[1] = <<>>
ImgFallback ==
    GetDiscogsImage(img.entity_type, img.release_name, img.artist_name,
                    img.label_name, img.env)

\* the path get_image returns for a file with extension ext
ReturnedPath(ext) ==
    <<".", "/", "static", "/", "img", "/", img.entity_type, "/",
      IdStr(img.entity_id), ext>>

\* C12 (ImgSpec): for a release with an external id and no URL, when the
\* art archive fails, times out or returns no image and the search-by-name
\* flow yields an image, get_image has run that flow, stored the image and
\* returned its path.
C12_FallbackImageStored ==
    ( /\ ImgDone /\ ImgNoUrl
      /\ img.entity_type = "release" /\ img.mbid # None
      /\ img.env.caa \in {"timeout", "error", "none"}
      /\ ImgFallback.kind = "return" /\ ImgFallback.image # <<>> )
    => /\ img.out.kind = "return"
       /\ img.out.path = ReturnedPath(ImgFallback.type)
       /\ [path |-> ImgFilePath("release", img.entity_id, ImgFallback.type),
           bytes |-> ImgFallback.image] \in disk.files

\* C13 (ImgSpec): get_image called with a valid entity type and no URL, no
\* source delivering an image (the art archive failing, timing out or
\* returning nothing where it is asked, the search failing or finding
\* nothing, the detail request failing or listing no image), returns None
\* and raises nothing.
C13_ExternalFailureYieldsNone ==
    ( /\ ImgDone /\ ImgNoUrl
      /\ img.entity_type \in VALID_TYPES
      /\ (img.entity_type = "release" /\ img.mbid # None)
            => img.env.caa \in {"timeout", "error", "none"}
      /\ \/ img.env.search \in {"error", "no_match"}
         \/ img.env.detail \in {"error", "no_images"} )
    => img.out.kind = "return" /\ img.out.path = <<>>

\* C14 (ImgSpec): when the art archive returns bytes that carry neither the
\* JPEG nor the PNG signature, get_image raises the error of the type check
\* and does not enter the fallback.
C14_BadBytesRaise ==
    ( /\ ImgDone /\ ImgNoUrl
      /\ img.entity_type = "release" /\ img.mbid \notin {None, ""}
      /\ img.env.caa = "bytes"
      /\ ~StartsWith(img.env.content, JPEG_HEADER)
      /\ ~StartsWith(img.env.content, PNG_HEADER) )
    => /\ img.out.kind = "raise"
       /\ img.out.exc = "ValueError"
       /\ "discogs" \notin img.out.stages

\* the supported extensions a URL contains, compared case-insensitively
UrlExts(url) ==
    {e \in SUPPORTED_EXTENSIONS :
        \E i \in 1..Len(url) : url[i] \in {e, ".JPG", ".PNG"}
                                /\ LowerTok(url[i]) = e}

ImgStored(ext) ==
    /\ img.out.kind = "return"
    /\ img.out.path = ReturnedPath(ext)
    /\ [path |-> ImgFilePath(img.entity_type, img.entity_id, ext),
        bytes |-> img.env.content] \in disk.files

C16_FailedOperationRollsBack ==
    [][/\ op'.failed
            => /\ op'.rolledBack /\ ~op'.committed /\ op'.exc # ""
               /\ store' = store
       /\ (op'.name \in {"update", "delete"} /\ ~op'.found) => op'.failed
       /\ op'.dberr => op'.failed]_vars

\* an update whose new external id another artist holds failed after the
\* row had been changed in the session
C16_Witness ==
    /\ op.name = "update" /\ op.type = "artist"
    /\ op.found /\ ~op.dberr
    /\ op.failed /\ op.rolledBack
    /\ \E a \in store.artist : a.id = op.id /\ a.mbid = None
    /\ \E a \in store.artist : a.id # op.id /\ a.mbid = "X1"

\* C17 (StoreSpec): every release names a stored artist and a stored label
\* and every review a stored release; a delete of a stored row that the
\* store does not fail removes the row, so the releases of a deleted artist
\* or label and the reviews of a deleted release are gone with it.
C17_ReferencesExist ==
    /\ RefOK(store)
    /\ (op.name = "delete" /\ op.found /\ ~op.dberr)
          => /\ ~op.failed
             /\ op.id \notin Ids(store[op.type])
             /\ op.type = "artist"
                   => \A r \in store.release : r.artist_id # op.id
             /\ op.type = "label"
                   => \A r \in store.release : r.label_id # op.id
             /\ op.type = "release"
                   => \A v \in store.review : v.release_id # op.id

\* an artist was deleted, and a release of theirs and its review with them,
\* while the release's label stays
C17_Witness ==
    /\ op.name = "delete" /\ op.type = "artist" /\ ~op.failed
    /\ op.removed >= 3
    /\ store.label # {}

QueryDone == query.pc = "done"
QueryReturned == QueryDone /\ query.out.kind = "return"
ResultRows == {query.out.rows[i] : i \in 1..Len(query.out.rows)}

\* C18 (SearchSpec): the list dynamic_search returns is in ascending order
\* of id, for Release, Artist and Label and for every filters mapping.
C18_ResultOrderedById ==
    QueryReturned
    => \A i, j \in 1..Len(query.out.rows) :
          i < j => query.out.rows[i].id < query.out.rows[j].id

\* the releases the filters other than key k keep
OtherFiltersKeep(k) ==
    {r \in query.st.release :
        \A k2 \in ReleaseSearchKeys \ {k} :
            Has(query.f, k2) => r \in ReleaseKeyRows(query.st, query.f, k2)}

\* C19 as stated (SearchSpec): a Release search with a non-empty artist
\* (label) value returns exactly the releases that the other filters keep
\* and whose artist's (label's) name contains the value case-insensitively,
\* and so nothing when no name contains it.
C19_ArtistFilterContains ==
    (QueryReturned /\ query.cls = "Release")
    => /\ (Has(query.f, "artist") /\ Val(query.f, "artist") # <<>>)
             => ResultRows =
                   {r \in OtherFiltersKeep("artist") :
                       \E a \in query.st.artist :
                           /\ a.id = r.artist_id
                           /\ Contains(a.name, Val(query.f, "artist"))}
       /\ (Has(query.f, "label") /\ Val(query.f, "label") # <<>>)
             => ResultRows =
                   {r \in OtherFiltersKeep("label") :
                       \E l \in query.st.label :
                           /\ l.id = r.label_id
                           /\ Contains(l.name, Val(query.f, "label"))}

\* C19 amended (SearchSpec): a Release search with a non-empty artist
\* (label) value returns exactly the releases that the other filters keep
\* and whose artist's (label's) name matches the case-insensitive LIKE
\* pattern %value%, and so nothing when no name matches it.
C19_ArtistFilterILike ==
    (QueryReturned /\ query.cls = "Release")
    => /\ (Has(query.f, "artist") /\ Val(query.f, "artist") # <<>>)
             => ResultRows =
                   {r \in OtherFiltersKeep("artist") :
                       \E a \in query.st.artist :
                           /\ a.id = r.artist_id
                           /\ ILikeContains(a.name, Val(query.f, "artist"))}
       /\ (Has(query.f, "label") /\ Val(query.f, "label") # <<>>)
             => ResultRows =
                   {r \in OtherFiltersKeep("label") :
                       \E l \in query.st.label :
                           /\ l.id = r.label_id
                           /\ ILikeContains(l.name, Val(query.f, "label"))}

\* a search by artist name kept one artist's release and dropped another's
C19_Witness ==
    /\ QueryReturned /\ query.cls = "Release"
    /\ Has(query.f, "artist") /\ Val(query.f, "artist") = <<"a">>
    /\ ResultRows # {}
    /\ \E r \in query.st.release : r \notin ResultRows
    /\ \A r \in ResultRows : r.artist_id = 1

\* the range fields of the searched class that hold a non-empty value
RangeKeysGiven ==
    {k \in IF query.cls = "Release" THEN {"rating", "year"}
           ELSE {"begin_date", "end_date"} :
        Has(query.f, k) /\ Val(query.f, k) # ""}

ArtistOrLabelFiltersKeep ==
    LET table == IF query.cls = "Artist" THEN query.st.artist
                 ELSE query.st.label IN
    {r \in table :
        \A k \in ArtistOrLabelSearchKeys :
            Has(query.f, k) => r \in ArtistOrLabelKeyRows(table, query.f, k)}

\* C21 (SearchSpec): an Artist or Label search returns no row named
\* "[NONE]", "[no label]" or "Various Artists", whatever the filters; a
\* Release search returns every release its filters keep, those of an
\* artist or label with such a name included.
C21_PlaceholdersExcluded ==
    /\ (QueryReturned /\ query.cls \in Classes)
          => \A r \in ResultRows : r.name \notin PlaceholderNames
    /\ (QueryReturned /\ query.cls = "Release")
          => \A r \in query.st.release :
                (\A k \in ReleaseSearchKeys :
                    Has(query.f, k) => r \in ReleaseKeyRows(query.st, query.f, k))
                => r \in ResultRows

\* an artist search returned a row and left out the "Various Artists" row
\* that every filter of the mapping keeps
C21_Witness ==
    /\ QueryReturned /\ query.cls = "Artist"
    /\ ResultRows # {}
    /\ \E r \in ArtistOrLabelFiltersKeep :
          r.name = <<"Various Artists">> /\ r \notin ResultRows

\* a release search returned the release of the artist "[NONE]" on the
\* label "[no label]"
C21_ReleaseOfPlaceholderReturned ==
    /\ QueryReturned /\ query.cls = "Release"
    /\ \E r \in ResultRows :
          /\ \E a \in query.st.artist : a.id = r.artist_id /\ a.name = <<"[NONE]">>
          /\ \E l \in query.st.label :
                l.id = r.label_id /\ l.name = <<"[no label]">>

StatDone == stat.pc = "done"
StatReturned == StatDone /\ stat.out.kind = "return"
StatRowsOut == {stat.out.rows[i] : i \in 1..Len(stat.out.rows)}

\* C22 (StatSpec): the lists frequency_highest,
\* average_ratings_and_total_counts and average_ratings_bayesian return on
\* Artist or Label hold no entity named "[NONE]", "Various Artists" or
\* "[no label]", whatever the stored rows.
C22_AggregatesExcludePlaceholders ==
    ( /\ StatReturned
      /\ stat.c.fn \in {"frequency_highest",
                        "average_ratings_and_total_counts",
                        "average_ratings_bayesian"} )
    => \A r \in StatRowsOut : r.name \notin PlaceholderNames

\* the functions that answer with a number
StatNumeric ==
    {"average_runtime", "total_runtime", "ratings_average",
     "added_this_year", "listens_this_year", "total_count"}

\* C23 (StatSpec): a statistics call with valid arguments whose query
\* raises returns its default, 0 or the empty list, and raises nothing.
C23_QueryErrorYieldsDefault ==
    ( /\ StatDone /\ stat.dberr
      /\ stat.c.fn # "average_ratings_bayesian"
      /\ stat.c.limit > 0 )
    => /\ stat.out.kind = "return"
       /\ stat.out.num = 0
       /\ stat.out.rows = <<>>

\* the stored entity with one release rated 100 and the stored entity with
\* 100 releases averaging 50, when the tables hold both
SingleReleaseEntities ==
    {e \in stat.st.entities :
        /\ ReleaseCount(ReleasesOf(stat.st, e)) = 1
        /\ RatingSum(ReleasesOf(stat.st, e)) = 100}
HighVolumeEntities ==
    {e \in stat.st.entities :
        /\ ReleaseCount(ReleasesOf(stat.st, e)) = 100
        /\ RatingSum(ReleasesOf(stat.st, e)) = 100 * 50}

BayesianDescReturned ==
    /\ StatReturned /\ ~stat.dberr
    /\ stat.c.fn = "average_ratings_bayesian" /\ stat.c.sort_order = "desc"

\* the position of an entity in the returned ranking, 0 when it is not there
RankOf(e) ==
    IF \E i \in 1..Len(stat.out.rows) : stat.out.rows[i].id = e.id
    THEN CHOOSE i \in 1..Len(stat.out.rows) : stat.out.rows[i].id = e.id
    ELSE 0

UtilDone(fn) == util.pc = "done" /\ util.fn = fn

\* C25 (UtilSpec): to_date(None, None) raises; to_date("begin", None)
\* returns a value equal to date(1,1,1) and to_date("end", None) one equal
\* to date(9999,12,31), dates like those returned for a date string; any
\* other option with no date string raises.
C25_LimitsAreDates ==
    (UtilDone("to_date") /\ util.args.date_str = <<>>)
    => /\ util.args.begin_or_end = "begin"
             => /\ util.out.kind = "return"
                /\ util.out.value = Date(1, 1, 1)
       /\ util.args.begin_or_end = "end"
             => /\ util.out.kind = "return"
                /\ util.out.value = Date(9999, 12, 31)
       /\ util.args.begin_or_end \notin {"begin", "end"}
             => util.out.kind = "raise"

\* C26 (UtilSpec): get_image_type_from_bytes returns ".jpg" for a byte
\* string of at least 8 bytes that starts with FF D8 FF, ".png" for one
\* that starts with the 8-byte PNG signature, and raises for every other
\* input, every input shorter than 8 bytes included.
C26_HeaderAndLengthDecide ==
    UtilDone("get_image_type_from_bytes")
    => LET b == util.args.bytestr
           jpeg == /\ Len(b) >= 8
                   /\ b[1] = "ff" /\ b[2] = "d8" /\ b[3] = "ff"
           png == /\ Len(b) >= 8
                  /\ SubSeq(b, 1, 8)
                        = <<"89", "P", "N", "G", "0d", "0a", "1a", "0a">> IN
       /\ jpeg => util.out = UtilReturn(".jpg")
       /\ png => util.out = UtilReturn(".png")
       /\ (~jpeg /\ ~png)
             => util.out.kind = "raise" /\ util.out.exc = "ValueError"

\* the three bytes of the JPEG header alone were refused
C26_Witness ==
    /\ UtilDone("get_image_type_from_bytes")
    /\ util.args.bytestr = <<"ff", "d8", "ff">>
    /\ util.out.kind = "raise"

\* the images of a find_image argument, <<>> when it holds no list
ImagesGiven ==
    IF /\ util.args.search_results.kind = "dict"
       /\ util.args.search_results.images.kind = "list"
    THEN util.args.search_results.images.items
    ELSE <<>>

IsSquare(image) ==
    /\ image.height # <<>> /\ image.width # <<>>
    /\ image.height[1] = image.width[1]

C28_CounterFollowsQuotaAndCooldown ==
    /\ ( /\ rate.n >= 1 /\ rate.last.net.kind = "response"
         /\ rate.last.net.header # <<>> /\ IsDigit(rate.last.net.header[1]) )
          => rate.remaining_requests = <<DigitVal(rate.last.net.header[1])>>
    /\ ( /\ rate.n >= 2
         /\ rate.prev.after # <<>> /\ rate.prev.after[1] <= 1 )
          => rate.last.sentAt - rate.prev.netDoneAt >= 5
    /\ rate.remaining_requests = <<>>
          => ~IsThrottled(rate.remaining_requests)

\* a call whose response reported a quota of 1 slept, and the next request
\* went out 5 seconds after that response
C28_CooldownObserved ==
    /\ rate.n >= 2
    /\ rate.prev.net.kind = "response" /\ rate.prev.net.header = <<"1">>
    /\ rate.prev.slept = 5
    /\ rate.last.sentAt - rate.prev.netDoneAt = 5

\* C29 (AlarmSpec): the alarm armed for the primary attempt is no longer
\* pending once get_caa_image has returned or raised, and the timeout
\* exception is never raised in the code that runs after it.
C29_AlarmDisarmedWhenAttemptEnds ==
    /\ alarm.pc = "after" => alarm.pending = <<>>
    /\ "after" \notin alarm.raisedIn

\* the timeout interrupted the primary attempt itself
C29_TimeoutInsideAttempt ==
    /\ alarm.ended = "timeout"
    /\ alarm.raisedIn = {"caa"}

\* ------------------------------------------------------- create_new claims
CreateDone == create.pc = "done"
CreateInserted == CreateDone /\ create.out.inserted # 0
ExplicitUrl ==
    /\ create.data.is_dict
    /\ create.data.image # <<>>
    /\ create.data.image[1] # <<>>

\* the first get_image call downloaded the submitted URL and stored it
UrlImageStored ==
    /\ CreateInserted /\ ExplicitUrl
    /\ Len(create.out.calls) >= 1
    /\ create.out.calls[1].kind = "return"
    /\ create.out.calls[1].path # <<>>

\* C30 (CreateSpec): Release.create_new runs the image pipeline once per
\* created release; when the data carries an image URL and the download of
\* it is stored, the stored images are those of that download, no
\* art-archive or catalog lookup is made afterwards, and create_new returns
\* the id of the inserted release.
C30_PipelineOnceUrlImageKept ==
    /\ CreateInserted => Len(create.out.calls) <= 1
    /\ UrlImageStored =>
          /\ \A i \in DOMAIN create.out.calls :
                create.out.calls[i].stages \subseteq {"url"}
          /\ disk = create.out.calls[1].fs
          /\ create.out.kind = "return"
          /\ create.out.ret = create.out.inserted
          /\ \E r \in releases : r.id = create.out.ret

\* a create_new call with an image URL and a release-group id whose second
\* get_image call took the art archive's image
C30_ArchiveLookupAfterUrl ==
    /\ UrlImageStored
    /\ Len(create.out.calls) = 2
    /\ "caa" \in create.out.calls[2].stages
    /\ create.out.calls[2].kind = "return"
    /\ disk # create.out.calls[1].fs

====
